---------------------------- MODULE Spec2Model ----------------------------
(***************************************************************************)
(* The fitness rule evaluator of roam (src/roam/commands/cmd_fitness.py)   *)
(* over the persistent index.  Text (paths, patterns, config lines) is     *)
(* kept as strings and taken apart with Head/Tail/SubSeq, so that globs,   *)
(* regular expressions and the config dialect are computed the way the     *)
(* code computes them.                                                     *)
(***************************************************************************)
EXTENDS Integers, Sequences, FiniteSets, TLC

(***************************************************************************)
(* Text helpers (Python str methods used by the code).                     *)
(***************************************************************************)

\* s[i] for a 1-based position of a non-empty range.
CharAt(s, i) == SubSeq(s, i, i)

\* s[i:] with a 1-based start.
From(s, i) == SubSeq(s, i, Len(s))

\* str.startswith
StartsWith(s, p) == Len(p) <= Len(s) /\ SubSeq(s, 1, Len(p)) = p

\* `sub in s`
Contains(s, sub) == \E i \in 1..(Len(s) - Len(sub) + 1) : SubSeq(s, i, i + Len(sub) - 1) = sub

\* str.find(c) + 1 for a one-character c: the first position of c, 0 when absent.
FindChar(s, c) ==
    IF \E i \in 1..Len(s) : CharAt(s, i) = c
    THEN CHOOSE i \in 1..Len(s) : CharAt(s, i) = c /\ \A j \in 1..(i - 1) : CharAt(s, j) # c
    ELSE 0

Whitespace == {" ", "\t", "\r", "\n"}

\* str.strip(chars): drop the leading and trailing characters that are in `chars`.
\* The number of leading characters of s that are in `chars`.
LeadingIn(s, chars) ==
    CHOOSE k \in 0..Len(s) :
        /\ \A j \in 1..k : CharAt(s, j) \in chars
        /\ k = Len(s) \/ CharAt(s, k + 1) \notin chars

\* The number of trailing characters of s that are in `chars`.
TrailingIn(s, chars) ==
    CHOOSE k \in 0..Len(s) :
        /\ \A j \in 1..k : CharAt(s, Len(s) + 1 - j) \in chars
        /\ k = Len(s) \/ CharAt(s, Len(s) - k) \notin chars

StripChars(s, chars) ==
    SubSeq(s, LeadingIn(s, chars) + 1, Len(s) - TrailingIn(s, chars))

\* str.strip()
Strip(s) == StripChars(s, Whitespace)

UpperCase == "ABCDEFGHIJKLMNOPQRSTUVWXYZ"
LowerCase == "abcdefghijklmnopqrstuvwxyz"

UpperChars == {CharAt(UpperCase, i) : i \in 1..Len(UpperCase)}

LowerChar(c) ==
    IF c \in UpperChars THEN CharAt(LowerCase, FindChar(UpperCase, c)) ELSE c

RECURSIVE Lower(_)
\* str.lower()
Lower(s) ==
    IF \A i \in 1..Len(s) : CharAt(s, i) \notin UpperChars THEN s
    ELSE IF Len(s) = 1 THEN LowerChar(s)
    ELSE LET half == Len(s) \div 2
         IN  Lower(SubSeq(s, 1, half)) \o Lower(SubSeq(s, half + 1, Len(s)))

\* The positions of a sequence, in order.
Positions(seq) == [k \in 1..Len(seq) |-> k]

Digits == "0123456789"

IsDigit(c) == FindChar(Digits, c) # 0

\* str.isdigit() on ASCII text
IsDigits(s) == s # "" /\ \A i \in 1..Len(s) : IsDigit(CharAt(s, i))

RECURSIVE DigitsValue(_, _)
DigitsValue(s, acc) ==
    IF s = "" THEN acc ELSE DigitsValue(Tail(s), 10 * acc + FindChar(Digits, Head(s)) - 1)

RECURSIVE Str(_)
\* str(n) / f"{n}" for an integer n
Str(n) ==
    IF n < 0 THEN "-" \o Str(0 - n)
    ELSE IF n < 10 THEN CharAt(Digits, n + 1)
    ELSE Str(n \div 10) \o CharAt(Digits, (n % 10) + 1)


(***************************************************************************)
(* fnmatch.fnmatch(name, pat) as _check_dependency_rule calls it.  On      *)
(* POSIX normcase is the identity; translate() turns `*` into `.*`, `?`    *)
(* into `.`, `[seq]` / `[!seq]` into a character class (a `[` without a    *)
(* closing `]` is a literal) and everything else into itself, and the      *)
(* whole name must match.  `*` also matches `/`.                           *)
(***************************************************************************)

\* Printable ASCII in code order (codes 32..126, the backquote left out: a
\* TLA+ string cannot hold it), for character ranges.
Ascii == " !\"#$%&'()*+,-./0123456789:;<=>?@ABCDEFGHIJKLMNOPQRSTUVWXYZ[\\]^_abcdefghijklmnopqrstuvwxyz{|}~"

Ord(c) == FindChar(Ascii, c)

RECURSIVE ClassHas(_, _)
\* Is c in the character set `stuff` (the text between the brackets, after
\* any negation sign)?  `a-z` is a range, anything else stands for itself.
ClassHas(stuff, c) ==
    IF stuff = "" THEN FALSE
    ELSE IF Len(stuff) >= 3 /\ CharAt(stuff, 2) = "-"
         THEN (Ord(CharAt(stuff, 1)) <= Ord(c) /\ Ord(c) <= Ord(CharAt(stuff, 3)))
              \/ ClassHas(From(stuff, 4), c)
         ELSE Head(stuff) = c \/ ClassHas(Tail(stuff), c)

\* The position of the `]` closing a bracket expression that opens at
\* position 1 of p, 0 when there is none.  A `]` right after `[` or after the
\* negation sign is a member, not the end.
ClassEnd(p, negsign) ==
    LET j0 == IF Len(p) >= 2 /\ CharAt(p, 2) = negsign THEN 3 ELSE 2
        j1 == IF Len(p) >= j0 /\ CharAt(p, j0) = "]" THEN j0 + 1 ELSE j0
        k  == FindChar(From(p, j1), "]")
    IN  IF k = 0 THEN 0 ELSE j1 + k - 1

\* The members and the negation of the bracket expression p[1..e].
ClassStuff(p, e, negsign) ==
    IF CharAt(p, 2) = negsign THEN SubSeq(p, 3, e - 1) ELSE SubSeq(p, 2, e - 1)

ClassNeg(p, negsign) == Len(p) >= 2 /\ CharAt(p, 2) = negsign

RECURSIVE GlobMatch(_, _)
GlobMatch(name, pat) ==
    IF pat = "" THEN name = ""
    ELSE LET c == Head(pat) IN
         IF c = "*"
         THEN GlobMatch(name, Tail(pat)) \/ (name # "" /\ GlobMatch(Tail(name), pat))
         ELSE IF c = "?"
         THEN name # "" /\ GlobMatch(Tail(name), Tail(pat))
         ELSE IF c = "[" /\ ClassEnd(pat, "!") # 0
         THEN LET e == ClassEnd(pat, "!") IN
              /\ name # ""
              /\ ClassHas(ClassStuff(pat, e, "!"), Head(name)) # ClassNeg(pat, "!")
              /\ GlobMatch(Tail(name), From(pat, e + 1))
         ELSE name # "" /\ Head(name) = c /\ GlobMatch(Tail(name), Tail(pat))

fnmatch(name, pat) == GlobMatch(name, pat)

(***************************************************************************)
(* re.compile(pattern).match(name) as _check_naming_rule calls it, for the *)
(* patterns made of `^`, `$`, `.`, bracket classes, escapes, literals and  *)
(* the postfix operators `*`, `+`, `?`.  match() anchors at the start of   *)
(* the name only: the pattern may stop before the name does.               *)
(***************************************************************************)

ReTok(kind, chars, neg, q) == [kind |-> kind, chars |-> chars, neg |-> neg, q |-> q]

RECURSIVE ReParse(_)
ReParse(p) ==
    IF p = "" THEN <<>>
    ELSE LET c == Head(p) IN
         IF c = "^" THEN <<ReTok("bol", "", FALSE, "1")>> \o ReParse(Tail(p))
         ELSE IF c = "$" THEN <<ReTok("eol", "", FALSE, "1")>> \o ReParse(Tail(p))
         ELSE LET e    == IF c = "[" THEN ClassEnd(p, "^") ELSE 0
                  alen == IF c = "[" /\ e # 0 THEN e
                          ELSE IF c = "\\" /\ Len(p) >= 2 THEN 2 ELSE 1
                  atom == IF c = "[" /\ e # 0
                          THEN ReTok("class", ClassStuff(p, e, "^"), ClassNeg(p, "^"), "1")
                          ELSE IF c = "\\" /\ Len(p) >= 2
                          THEN ReTok("class", CharAt(p, 2), FALSE, "1")
                          ELSE IF c = "." THEN ReTok("any", "", FALSE, "1")
                          ELSE ReTok("class", c, FALSE, "1")
                  q    == IF Len(p) > alen /\ CharAt(p, alen + 1) \in {"*", "+", "?"}
                          THEN CharAt(p, alen + 1) ELSE "1"
              IN  <<[atom EXCEPT !.q = q]>>
                  \o ReParse(From(p, alen + 1 + (IF q = "1" THEN 0 ELSE 1)))

ReAtomHas(t, c) ==
    IF t.kind = "any" THEN c # "\n"
    ELSE IF Len(t.chars) = 1 THEN (t.chars = c) # t.neg
    ELSE ClassHas(t.chars, c) # t.neg

RECURSIVE ReMatchAt(_, _, _)
\* Can the tokens match s starting at position pos?
ReMatchAt(toks, s, pos) ==
    IF toks = <<>> THEN TRUE
    ELSE LET t    == Head(toks)
             rest == Tail(toks)
             ok   == pos <= Len(s) /\ ReAtomHas(t, CharAt(s, pos))
         IN  CASE t.kind = "bol" -> pos = 1 /\ ReMatchAt(rest, s, pos)
               [] t.kind = "eol" -> pos = Len(s) + 1 /\ ReMatchAt(rest, s, pos)
               [] t.q = "1" -> ok /\ ReMatchAt(rest, s, pos + 1)
               [] t.q = "*" -> ReMatchAt(rest, s, pos) \/ (ok /\ ReMatchAt(toks, s, pos + 1))
               [] t.q = "+" -> ok /\ ReMatchAt(<<[t EXCEPT !.q = "*"]>> \o rest, s, pos + 1)
               [] OTHER     -> ReMatchAt(rest, s, pos) \/ (ok /\ ReMatchAt(rest, s, pos + 1))

\* re.compile(pattern).match(name) is not None
re_match(pattern, name) == ReMatchAt(ReParse(pattern), name, 1)

(***************************************************************************)
(* Python values held by a rule: str, int, bool (an int: True == 1),       *)
(* float (kept as its decimal text) and None.                              *)
(***************************************************************************)

VStr(s)   == [t |-> "str",   s |-> s,  n |-> 0]
VInt(n)   == [t |-> "int",   s |-> "", n |-> n]
VBool(b)  == [t |-> "bool",  s |-> "", n |-> IF b THEN 1 ELSE 0]
VFloat(s) == [t |-> "float", s |-> s,  n |-> 0]
VNone     == [t |-> "none",  s |-> "", n |-> 0]

\* The sign-less digits of a decimal text, the point dropped ("-1.50" -> "150").
FloatDigits(s) ==
    LET b == IF s # "" /\ Head(s) \in {"+", "-"} THEN Tail(s) ELSE s
        d == FindChar(b, ".")
    IN  IF d = 0 THEN b ELSE SubSeq(b, 1, d - 1) \o From(b, d + 1)

\* bool(v)
Truthy(v) ==
    CASE v.t = "str"   -> v.s # ""
      [] v.t = "float" -> DigitsValue(FloatDigits(v.s), 0) # 0
      [] v.t = "none"  -> FALSE
      [] OTHER         -> v.n # 0

\* dict.get(key, default)
Get(rule, key, default) == IF key \in DOMAIN rule THEN rule[key] ELSE default

(***************************************************************************)
(* _parse_simple_yaml: the fallback loader.  A file is the list of its     *)
(* lines (text.split("\n")).                                               *)
(***************************************************************************)

\* s.split(":", 1) for an s that holds a colon
SplitColon(s) ==
    LET i == FindChar(s, ":") IN <<SubSeq(s, 1, i - 1), From(s, i + 1)>>

\* val.strip().strip('"').strip("'")
Unquote(s) == StripChars(StripChars(Strip(s), {"\""}), {"'"})

\* Does int(s) succeed?  (an optional sign and decimal digits, blanks around)
IsInt(s) ==
    LET b == Strip(s)
        d == IF b # "" /\ Head(b) \in {"+", "-"} THEN Tail(b) ELSE b
    IN  IsDigits(d)

\* int(s)
IntOf(s) ==
    LET b == Strip(s)
    IN  IF Head(b) = "-" THEN 0 - DigitsValue(Tail(b), 0)
        ELSE IF Head(b) = "+" THEN DigitsValue(Tail(b), 0)
        ELSE DigitsValue(b, 0)

\* Does float(s) succeed where int(s) did not?  (sign, digits, one point)
IsFloat(s) ==
    LET b == Strip(s)
        d == IF b # "" /\ Head(b) \in {"+", "-"} THEN Tail(b) ELSE b
        k == FindChar(d, ".")
    IN  /\ k # 0
        /\ Len(d) >= 2
        /\ \A i \in 1..Len(d) : i # k => IsDigit(CharAt(d, i))

\* The type conversions of lines 97-108.
ConvertSimple(val) ==
    IF Lower(val) = "true" THEN VBool(TRUE)
    ELSE IF Lower(val) = "false" THEN VBool(FALSE)
    ELSE IF IsInt(val) THEN VInt(IntOf(val))
    ELSE IF IsFloat(val) THEN VFloat(Strip(val))
    ELSE VStr(val)

\* A list comprehension as the list it builds.
Listed(f) == SubSeq(f, 1, Len(f))

\* A variant that skips blank lines only: a comment line is read as text.
SimpleLineKeepsComments(stripped) ==
    IF stripped = "" THEN [kind |-> "skip"]
    ELSE IF StartsWith(stripped, "- name:")
    THEN [kind |-> "open", key |-> "name",
          val |-> VStr(Unquote(SplitColon(stripped)[2]))]
    ELSE IF FindChar(stripped, ":") # 0
    THEN [kind |-> "set", key |-> Strip(SplitColon(stripped)[1]),
          val |-> ConvertSimple(Unquote(SplitColon(stripped)[2]))]
    ELSE [kind |-> "none"]

\* What the loop body (lines 84-109) makes of one line, given line.strip():
\* skipped (85-86), the opening of a rule (88-91), an assignment to the
\* current rule (92-109), or nothing.
SimpleLine(stripped) ==
    IF stripped = "" \/ StartsWith(stripped, "#") THEN [kind |-> "skip"]
    ELSE IF StartsWith(stripped, "- name:")
    THEN [kind |-> "open", key |-> "name",
          val |-> VStr(Unquote(SplitColon(stripped)[2]))]
    ELSE IF FindChar(stripped, ":") # 0
    THEN [kind |-> "set", key |-> Strip(SplitColon(stripped)[1]),
          val |-> ConvertSimple(Unquote(SplitColon(stripped)[2]))]
    ELSE [kind |-> "none"]

\* The mapping opened at position first of doc and assigned to by the lines
\* of the given kind up to position upto; a key assigned twice keeps its
\* last value.
Mapping(doc, first, upto, kind) ==
    [key \in {doc[first].key}
             \cup {doc[j].key : j \in {h \in (first + 1)..upto : doc[h].kind = kind}} |->
        IF \E j \in (first + 1)..upto : doc[j].kind = kind /\ doc[j].key = key
        THEN doc[CHOOSE j \in (first + 1)..upto :
                     /\ doc[j].kind = kind /\ doc[j].key = key
                     /\ \A h \in (j + 1)..upto : ~(doc[h].kind = kind /\ doc[h].key = key)].val
        ELSE doc[first].val]

\* One mapping for each position of opens, made of the lines up to the next
\* position of opens (up to upto for the last one).
Mappings(doc, opens, upto, kind) ==
    [k \in 1..Len(opens) |->
        Mapping(doc, opens[k], IF k < Len(opens) THEN opens[k + 1] - 1 ELSE upto, kind)]

\* The loop of lines 83-109 and the append of lines 111-112.
SimpleRules(doc) ==
    Mappings(doc, SelectSeq(Positions(doc), LAMBDA i : doc[i].kind = "open"),
             Len(doc), "set")

_parse_simple_yaml(lines) ==
    SimpleRules(Listed([i \in 1..Len(lines) |-> SimpleLine(Strip(lines[i]))]))

(***************************************************************************)
(* yaml.safe_load followed by data["rules"] (lines 69-74), for the block   *)
(* dialect the configs are written in: comment and blank lines, top-level  *)
(* `key:` lines, under `rules:` a list of mappings whose items start with  *)
(* `- key: value` and continue with indented `key: value` lines.  Scalars  *)
(* are resolved as PyYAML resolves them (YAML 1.1).                        *)
(***************************************************************************)

YamlTrue  == {"yes", "Yes", "YES", "true", "True", "TRUE", "on", "On", "ON"}
YamlFalse == {"no", "No", "NO", "false", "False", "FALSE", "off", "Off", "OFF"}
YamlNull  == {"", "~", "null", "Null", "NULL"}

\* A plain scalar without its trailing comment (` #` starts one).
DropComment(s) ==
    IF \E i \in 1..(Len(s) - 1) : SubSeq(s, i, i + 1) = " #"
    THEN LET i == CHOOSE i \in 1..(Len(s) - 1) :
                     /\ SubSeq(s, i, i + 1) = " #"
                     /\ \A j \in 1..(i - 1) : SubSeq(s, j, j + 1) # " #"
         IN  Strip(SubSeq(s, 1, i - 1))
    ELSE s

IsQuoted(s, q) ==
    Len(s) >= 2 /\ Head(s) = q /\ FindChar(Tail(s), q) # 0

\* The text between the quotes that open s.
Quoted(s, q) == SubSeq(s, 2, FindChar(Tail(s), q))

RECURSIVE OctalValue(_, _)
OctalValue(s, acc) ==
    IF s = "" THEN acc ELSE OctalValue(Tail(s), 8 * acc + FindChar(Digits, Head(s)) - 1)

YamlIsInt(d) ==
    \/ d = "0"
    \/ (IsDigits(d) /\ Head(d) # "0")
    \/ (Len(d) >= 2 /\ Head(d) = "0" /\ \A i \in 2..Len(d) : Ord(CharAt(d, i)) \in Ord("0")..Ord("7"))

YamlIsFloat(d) ==
    LET k == FindChar(d, ".")
    IN  /\ k # 0
        /\ Len(d) >= 2
        /\ \A i \in 1..Len(d) : i # k => IsDigit(CharAt(d, i))

YamlScalar(text) ==
    LET s == Strip(text) IN
    IF IsQuoted(s, "\"") THEN VStr(Quoted(s, "\""))
    ELSE IF IsQuoted(s, "'") THEN VStr(Quoted(s, "'"))
    ELSE LET p    == DropComment(s)
             sign == IF p # "" /\ Head(p) \in {"+", "-"} THEN Head(p) ELSE ""
             d    == IF sign = "" THEN p ELSE Tail(p)
         IN  IF p \in YamlTrue THEN VBool(TRUE)
             ELSE IF p \in YamlFalse THEN VBool(FALSE)
             ELSE IF p \in YamlNull THEN VNone
             ELSE IF YamlIsInt(d)
             THEN LET v == IF Len(d) >= 2 /\ Head(d) = "0"
                           THEN OctalValue(d, 0) ELSE DigitsValue(d, 0)
                  IN  VInt(IF sign = "-" THEN 0 - v ELSE v)
             ELSE IF YamlIsFloat(d) THEN VFloat(p)
             ELSE VStr(p)

\* The position of the colon that ends a mapping key (a colon followed by a
\* blank or ending the line), 0 when the line has none.
EndsKey(s, i) == CharAt(s, i) = ":" /\ (i = Len(s) \/ CharAt(s, i + 1) = " ")

KeyColon(s) ==
    IF \E i \in 1..Len(s) : EndsKey(s, i)
    THEN CHOOSE i \in 1..Len(s) : EndsKey(s, i) /\ \A j \in 1..(i - 1) : ~EndsKey(s, j)
    ELSE 0

Indent(line) ==
    IF Strip(line) = "" THEN 0
    ELSE (CHOOSE i \in 1..Len(line) :
              CharAt(line, i) # " " /\ \A j \in 1..(i - 1) : CharAt(line, j) = " ") - 1

\* `key: value` as a pair.
YamlPair(kind, key, val) == [kind |-> kind, key |-> key, val |-> YamlScalar(val)]

\* What one line of the document is, given the line without its blanks: a
\* comment or blank line, an entry of a block sequence that opens a mapping
\* (`- key: value`; it may sit at the indentation of the key that holds the
\* sequence), a line of the top-level mapping (the key `rules` or another),
\* an indented `key: value` line, or anything else.
YamlLine(line, stripped) ==
    IF stripped = "" \/ StartsWith(stripped, "#") THEN [kind |-> "skip"]
    ELSE IF StartsWith(stripped, "- ") /\ KeyColon(From(stripped, 3)) # 0
    THEN YamlPair("item",
                  SubSeq(Strip(From(stripped, 3)), 1, KeyColon(Strip(From(stripped, 3))) - 1),
                  From(Strip(From(stripped, 3)), KeyColon(Strip(From(stripped, 3))) + 1))
    ELSE IF Indent(line) = 0
    THEN IF KeyColon(stripped) # 0 /\ SubSeq(stripped, 1, KeyColon(stripped) - 1) = "rules"
         THEN [kind |-> "rules"] ELSE [kind |-> "top"]
    ELSE IF KeyColon(stripped) # 0
    THEN YamlPair("more",
                  Strip(SubSeq(stripped, 1, KeyColon(stripped) - 1)),
                  From(stripped, KeyColon(stripped) + 1))
    ELSE [kind |-> "none"]

\* The value of the key `rules` given at position at: the entries up to the
\* next line of the top-level mapping.
YamlSequence(doc, at, upto) ==
    Mappings(doc,
             SelectSeq(Positions(doc), LAMBDA i : i > at /\ i <= upto /\ doc[i].kind = "item"),
             upto, "more")

\* data.get("rules", []) of the loaded document; a key given twice keeps
\* its last value.
YamlRules(doc) ==
    LET keys == {j \in 1..Len(doc) : doc[j].kind = "rules"}
        at   == CHOOSE j \in keys : \A h \in keys : h <= j
        tops == {j \in (at + 1)..Len(doc) : doc[j].kind = "top"}
    IN  IF keys = {} THEN <<>>
        ELSE YamlSequence(doc, at,
                          IF tops = {} THEN Len(doc)
                          ELSE (CHOOSE j \in tops : \A h \in tops : j <= h) - 1)

\* yaml.safe_load(f), then lines 72-74.
yaml_rules(lines) ==
    YamlRules(Listed([i \in 1..Len(lines) |-> YamlLine(lines[i], Strip(lines[i]))]))

(***************************************************************************)
(* State.  The index (the tables the queries read, and whether index.db    *)
(* exists yet), the two config files of <project>/.roam, whether PyYAML    *)
(* can be imported, what the last command left behind, and the calls made  *)
(* to the envelope validator and through the MCP server.                   *)
(***************************************************************************)

VARIABLES
    files,           \* table files: the set of paths (a file's id is its path)
    symbols,         \* table symbols in rowid order; a symbol's id is its position
    edges,           \* table edges in rowid order
    symbol_metrics,  \* table symbol_metrics: symbol id -> cognitive_complexity
    graph_metrics,   \* table graph_metrics: symbol id -> row; no row = invalidated
    yaml_file,       \* .roam/fitness.yaml: <<>> when absent, else <<lines>>
    yml_file,        \* .roam/fitness.yml, likewise
    yaml_available,  \* `import yaml` succeeds
    stale,           \* refreshes since graph_metrics was last rebuilt
    last,            \* outcome of the command that ran last, or Idle
    db_exists,       \* .roam/index.db exists (the tables are what it holds once built)
    validated,       \* the last call of validate_envelope: its argument and result
    mcp,             \* the last call of an MCP tool: its arguments and what it returned
    lib              \* the last call of a library function: its arguments and result

vars == <<files, symbols, edges, symbol_metrics, graph_metrics,
          yaml_file, yml_file, yaml_available, stale, last, db_exists, validated, mcp,
          lib>>

\* The state of the library calls.
calls == <<validated, mcp, lib>>

\* No call has been made.
NoCall == [made |-> FALSE]

index == <<files, symbols, edges, symbol_metrics, graph_metrics>>

SymbolIds == 1..Len(symbols)

(***************************************************************************)
(* The symbol graph and its cycles (graph builder and find_cycles, called  *)
(* at lines 171-172 and 200-205): nodes are the symbols, an arc joins the  *)
(* endpoints of every edge row; a cycle is a strongly connected component  *)
(* of two or more symbols, or a symbol with a self-loop.                   *)
(***************************************************************************)

Succ(es, v) == {es[i].target_id : i \in {j \in 1..Len(es) : es[j].source_id = v}}

Pred(es, v) == {es[i].source_id : i \in {j \in 1..Len(es) : es[j].target_id = v}}

EdgeNodes(es) == {es[i].source_id : i \in 1..Len(es)} \cup {es[i].target_id : i \in 1..Len(es)}

RECURSIVE ReachFrom(_, _, _)
\* The nodes reachable from `front` by zero or more arcs, `seen` included.
ReachFrom(es, front, seen) ==
    IF front = {} THEN seen
    ELSE LET next == UNION {Succ(es, v) : v \in front} \ (seen \cup front)
         IN  ReachFrom(es, next, seen \cup front)

\* The nodes reachable from v by one or more arcs.
Reach1(es, v) == ReachFrom(es, Succ(es, v), {})

SCCs(es) ==
    LET cyc == {v \in EdgeNodes(es) : v \in Reach1(es, v)}
    IN  {{u \in cyc : u \in Reach1(es, v) /\ v \in Reach1(es, u)} : v \in cyc}

SetMin(S) == CHOOSE x \in S : \A y \in S : x <= y

RECURSIVE CyclesSorted(_)
\* By size descending, then by smallest member.
CyclesSorted(cs) ==
    IF cs = {} THEN <<>>
    ELSE LET first == CHOOSE c \in cs : \A d \in cs :
                          \/ Cardinality(c) > Cardinality(d)
                          \/ (Cardinality(c) = Cardinality(d) /\ SetMin(c) <= SetMin(d))
         IN  <<first>> \o CyclesSorted(cs \ {first})

find_cycles(es) == CyclesSorted(SCCs(es))

RECURSIVE SumLen(_)
\* sum(len(c) for c in cycles)
SumLen(cycles) == IF cycles = <<>> THEN 0 ELSE Cardinality(Head(cycles)) + SumLen(Tail(cycles))

(***************************************************************************)
(* graph_metrics as the lazy rebuild computes it: in- and out-degree in    *)
(* the symbol graph and Brandes betweenness normalised to [0,1], kept as   *)
(* the exact fraction bt_num / bt_den.                                     *)
(***************************************************************************)

RECURSIVE DistFrom(_, _, _, _, _)
DistFrom(es, front, seen, t, d) ==
    IF t \in front THEN d
    ELSE IF front = {} THEN -1
    ELSE LET next == UNION {Succ(es, v) : v \in front} \ (seen \cup front)
         IN  DistFrom(es, next, seen \cup front, t, d + 1)

\* Length of a shortest path from s to t, -1 when there is none.
Dist(es, s, t) == DistFrom(es, {s}, {}, t, 0)

RECURSIVE SumFn(_)
SumFn(f) ==
    IF DOMAIN f = {} THEN 0
    ELSE LET x == CHOOSE x \in DOMAIN f : TRUE
         IN  f[x] + SumFn([y \in DOMAIN f \ {x} |-> f[y]])

RECURSIVE Sigma(_, _, _)
\* The number of shortest paths from s to t (t reachable from s).
Sigma(es, s, t) ==
    IF s = t THEN 1
    ELSE LET d  == Dist(es, s, t)
             ps == {u \in Pred(es, t) : Dist(es, s, u) = d - 1}
         IN  SumFn([u \in ps |-> Sigma(es, s, u)])

RECURSIVE Gcd(_, _)
Gcd(a, b) == IF b = 0 THEN a ELSE Gcd(b, a % b)

RECURSIVE LcmOf(_)
LcmOf(S) ==
    IF S = {} THEN 1
    ELSE LET x == CHOOSE x \in S : TRUE
             l == LcmOf(S \ {x})
         IN  (x * l) \div Gcd(x, l)

\* The ordered pairs joined by a shortest path.
Joined(es) == {p \in EdgeNodes(es) \X EdgeNodes(es) : p[1] # p[2] /\ Dist(es, p[1], p[2]) > 0}

\* The common denominator of the path fractions.
PathLcm(es) == LcmOf({Sigma(es, p[1], p[2]) : p \in Joined(es)})

\* Sum over the pairs (s,t) around v of sigma(s,t | v) / sigma(s,t), times PathLcm.
BetweennessNum(es, v) ==
    LET through == {p \in Joined(es) :
                      /\ p[1] # v /\ p[2] # v
                      /\ Dist(es, p[1], v) > 0 /\ Dist(es, v, p[2]) > 0
                      /\ Dist(es, p[1], v) + Dist(es, v, p[2]) = Dist(es, p[1], p[2])}
        l == PathLcm(es)
    IN  SumFn([p \in through |->
                 Sigma(es, p[1], v) * Sigma(es, v, p[2]) * (l \div Sigma(es, p[1], p[2]))])

GraphMetricRow(syms, es, v) ==
    LET n == Len(syms) IN
    [in_degree  |-> Cardinality(Pred(es, v)),
     out_degree |-> Cardinality(Succ(es, v)),
     bt_num     |-> IF n > 2 /\ v \in EdgeNodes(es) THEN BetweennessNum(es, v) ELSE 0,
     bt_den     |-> IF n > 2 /\ v \in EdgeNodes(es) THEN PathLcm(es) * (n - 1) * (n - 2) ELSE 1]

ComputeGraphMetrics(syms, es) == [v \in 1..Len(syms) |-> GraphMetricRow(syms, es, v)]

(***************************************************************************)
(* Rule checkers.  A checker returns its violations and, when it raised,   *)
(* the exception that left it; `fault` says that the storage raises at the *)
(* checker's first query.                                                  *)
(***************************************************************************)

Returned(violations) == [violations |-> violations, raised |-> ""]
Raised(exc)          == [violations |-> <<>>, raised |-> exc]

\* f"{v}"
Show(v) ==
    CASE v.t = "str"   -> v.s
      [] v.t = "float" -> v.s
      [] v.t = "none"  -> "None"
      [] v.t = "bool"  -> IF v.n = 1 THEN "True" ELSE "False"
      [] OTHER         -> Str(v.n)

RECURSIVE Pow10(_)
Pow10(k) == IF k = 0 THEN 1 ELSE 10 * Pow10(k - 1)

\* The number of digits after the point of a decimal text.
FloatScale(s) == LET d == FindChar(s, ".") IN IF d = 0 THEN 0 ELSE Len(s) - d

FloatSigned(s) ==
    IF s # "" /\ Head(s) = "-" THEN 0 - DigitsValue(FloatDigits(s), 0)
    ELSE DigitsValue(FloatDigits(s), 0)

\* a > v and a < v for an int a and a threshold v taken from the rule:
\* "T", "F", or "E" when Python raises TypeError (a str threshold).
Greater(a, v) ==
    CASE v.t \in {"int", "bool"} -> IF a > v.n THEN "T" ELSE "F"
      [] v.t = "float" -> IF a * Pow10(FloatScale(v.s)) > FloatSigned(v.s) THEN "T" ELSE "F"
      [] OTHER -> "E"

Less(a, v) ==
    CASE v.t \in {"int", "bool"} -> IF a < v.n THEN "T" ELSE "F"
      [] v.t = "float" -> IF a * Pow10(FloatScale(v.s)) < FloatSigned(v.s) THEN "T" ELSE "F"
      [] OTHER -> "E"

\* loc(path, line) of the formatter
loc(path, line) == IF line = 0 THEN path ELSE path \o ":" \o Str(line)

\* The join of lines 134-138: the edge rows whose endpoints and their files exist.
EdgeRows ==
    SelectSeq(Positions(edges), LAMBDA i :
        /\ edges[i].source_id \in SymbolIds
        /\ edges[i].target_id \in SymbolIds
        /\ symbols[edges[i].source_id].file \in files
        /\ symbols[edges[i].target_id].file \in files)

DependencyViolation(rule, e) ==
    [rule      |-> rule["name"],
     type      |-> "dependency",
     message   |-> symbols[e.source_id].name \o " -> " \o symbols[e.target_id].name,
     source    |-> symbols[e.source_id].file \o ":"
                   \o (IF e.line # 0 THEN Str(e.line) ELSE "?"),
     target    |-> symbols[e.target_id].file,
     edge_kind |-> e.kind]

\* A variant that does not look at the target path.
DependencyHitAnyTarget(from_pattern, to_pattern, allow, e) ==
    /\ fnmatch(symbols[e.source_id].file, from_pattern)
    /\ ~allow

\* The condition of line 146 for one row.
DependencyHit(from_pattern, to_pattern, allow, e) ==
    /\ fnmatch(symbols[e.source_id].file, from_pattern)
    /\ fnmatch(symbols[e.target_id].file, to_pattern)
    /\ ~allow

\* The violations list of lines 141-156 for the reported rows `hits`;
\* rule["name"] raises KeyError for a rule without a name.
DependencyViolations(rule, hits) ==
    IF hits # <<>> /\ "name" \notin DOMAIN rule THEN Raised("KeyError")
    ELSE Returned([k \in 1..Len(hits) |-> DependencyViolation(rule, edges[hits[k]])])

\* The loop of lines 142-154 over the joined rows; fnmatch raises TypeError
\* for a pattern that is not a str.
DependencyLoop(rule, rows, from_pattern, to_pattern, allow) ==
    IF rows # <<>> /\ (from_pattern.t # "str" \/ to_pattern.t # "str")
    THEN Raised("TypeError")
    ELSE DependencyViolations(rule, SelectSeq(rows, LAMBDA i :
             DependencyHit(from_pattern.s, to_pattern.s, Truthy(allow), edges[i])))

_check_dependency_rule(rule, fault) ==
    IF fault THEN Raised("StorageError")
    ELSE DependencyLoop(rule, EdgeRows,
                        Get(rule, "from", VStr("**")),
                        Get(rule, "to", VStr("**")),
                        Get(rule, "allow", VBool(FALSE)))

MetricViolation(rule, metric, bound, count, threshold) ==
    [rule      |-> rule["name"],
     type      |-> "metric",
     message   |-> metric \o "=" \o Str(count) \o " (" \o bound \o "=" \o Show(threshold) \o ")",
     metric    |-> metric,
     value     |-> count,
     threshold |-> threshold]

\* The two comparisons every count-valued metric ends with (lines 174-191,
\* 211-222, 287-298): first max, then min.
\* over, under: the outcomes of `count > max_val` and `count < min_val`
\* ("F" when the bound is None).
ThresholdAppend(rule, metric, count, over, under) ==
    LET named == "name" \in DOMAIN rule
        vmax  == IF over = "T" /\ named
                 THEN <<MetricViolation(rule, metric, "max", count, rule["max"])>> ELSE <<>>
        vmin  == IF under = "T" /\ named
                 THEN <<MetricViolation(rule, metric, "min", count, rule["min"])>> ELSE <<>>
    IN  IF over = "E" THEN Raised("TypeError")
        ELSE IF over = "T" /\ ~named THEN Raised("KeyError")
        ELSE IF under = "E" THEN [violations |-> vmax, raised |-> "TypeError"]
        ELSE IF under = "T" /\ ~named THEN [violations |-> vmax, raised |-> "KeyError"]
        ELSE Returned(vmax \o vmin)

Threshold(rule, metric, count) ==
    ThresholdAppend(rule, metric, count,
        IF Get(rule, "max", VNone).t = "none" THEN "F" ELSE Greater(count, rule["max"]),
        IF Get(rule, "min", VNone).t = "none" THEN "F" ELSE Less(count, rule["min"]))

\* try: ... except Exception: pass  -- what was appended before the raise stays.
Swallow(result) == Returned(result.violations)

\* max(0, 100 - int(cycle_pct * 2)) with cycle_pct = cycle_syms / total_syms * 100
HealthScoreInline(cycle_syms, total_syms) ==
    LET penalty == (cycle_syms * 200) \div total_syms
    IN  IF 100 - penalty < 0 THEN 0 ELSE 100 - penalty

\* The rows of the query of lines 230-240 before ORDER BY and LIMIT.
ComplexityRows(threshold) ==
    SelectSeq(Positions(symbols), LAMBDA i :
        /\ i \in DOMAIN symbol_metrics
        /\ symbols[i].file \in files
        /\ Greater(symbol_metrics[i], threshold) = "T")

\* ORDER BY key DESC over the rows; rows with equal keys keep rowid order.
OrderDesc(rows, key) ==
    SortSeq(rows, LAMBDA i, j : key[i] > key[j] \/ (key[i] = key[j] /\ i < j))

\* LIMIT n
Limit(seq, n) == SubSeq(seq, 1, IF Len(seq) < n THEN Len(seq) ELSE n)

OffenderLimit == 50

DefaultComplexity == 999

ComplexityViolation(rule, i, threshold) ==
    [rule      |-> rule["name"],
     type      |-> "metric",
     message   |-> symbols[i].name \o " complexity=" \o Str(symbol_metrics[i])
                   \o " (max=" \o Show(threshold) \o ")",
     source    |-> loc(symbols[i].file, symbols[i].line_start),
     metric    |-> "cognitive_complexity",
     value     |-> symbol_metrics[i],
     threshold |-> threshold]

\* A variant whose query has no ORDER BY: the rows come in rowid order.
ComplexityOffendersUnordered(threshold) ==
    Limit(ComplexityRows(threshold), OffenderLimit)

\* The rows fetched at lines 230-240.
ComplexityOffenders(threshold) ==
    Limit(OrderDesc(ComplexityRows(threshold), symbol_metrics), OffenderLimit)

\* The violations list of lines 241-252; a rule without a name raises
\* KeyError inside the try, which swallows it.
ComplexityViolations(rule, offenders, threshold) ==
    IF "name" \notin DOMAIN rule THEN Returned(<<>>)
    ELSE Returned([k \in 1..Len(offenders) |->
                      ComplexityViolation(rule, offenders[k], threshold)])

ComplexityBranch(rule, threshold) ==
    ComplexityViolations(rule, ComplexityOffenders(threshold), threshold)

\* The try blocks of lines 168-193 and 197-224 once the cycles are known.
CyclesBranch(rule, cycles) == Swallow(Threshold(rule, "cycles", Len(cycles)))

GodDegree == 20

\* betweenness > 0.1
IsBottleneck(row) == 10 * row.bt_num > row.bt_den

\* The COUNT(*) of lines 268-273: symbols LEFT JOIN graph_metrics.
DeadExportsCount ==
    Cardinality({i \in SymbolIds :
        /\ symbols[i].is_exported
        /\ (i \notin DOMAIN graph_metrics \/ graph_metrics[i].in_degree = 0)})

\* The COUNT(*) of lines 275-278.
GodComponentsCount ==
    Cardinality({i \in DOMAIN graph_metrics :
        graph_metrics[i].in_degree + graph_metrics[i].out_degree > GodDegree})

\* The COUNT(*) of lines 280-282.
BottlenecksCount ==
    Cardinality({i \in DOMAIN graph_metrics : IsBottleneck(graph_metrics[i])})

CountedMetrics == {"dead_exports", "god_components", "bottlenecks"}

\* `count` after lines 267-284 for a metric in CountedMetrics.
CountOf(metric) ==
    CASE metric = "dead_exports" -> DeadExportsCount
      [] metric = "god_components" -> GodComponentsCount
      [] OTHER -> BottlenecksCount

_check_count_metric(metric, rule, fault) ==
    IF metric \notin CountedMetrics THEN Returned(<<>>)
    ELSE IF fault THEN Raised("StorageError")
    ELSE Threshold(rule, metric, CountOf(metric))

\* The health score a metric rule compares (lines 200-209) for a non-empty graph.
FitnessHealthScore == HealthScoreInline(SumLen(find_cycles(edges)), Len(symbols))

HealthBranch(rule) ==
    IF Len(symbols) = 0 THEN Returned(<<>>)
    ELSE Swallow(Threshold(rule, "health_score", FitnessHealthScore))

\* A storage error inside one of the three try blocks is swallowed by
\* `except Exception: pass` (lines 192, 223, 253).
_check_metric_rule(rule, fault) ==
    LET metric  == Get(rule, "metric", VStr(""))
        max_val == Get(rule, "max", VNone)
    IN  IF metric.t # "str" THEN Returned(<<>>)
        ELSE CASE metric.s = "cycles" ->
                  IF fault THEN Returned(<<>>)
                  ELSE CyclesBranch(rule, find_cycles(edges))
          [] metric.s = "health_score" ->
                  IF fault THEN Returned(<<>>) ELSE HealthBranch(rule)
          [] metric.s = "cognitive_complexity" ->
                  IF fault THEN Returned(<<>>)
                  ELSE ComplexityBranch(rule, IF max_val.t # "none" THEN max_val
                                              ELSE VInt(DefaultComplexity))
          [] metric.s \in {"god_components", "bottlenecks", "dead_exports", "layer_violations"} ->
                  _check_count_metric(metric.s, rule, fault)
          [] OTHER -> Returned(<<>>)

NamingViolation(rule, i, pattern) ==
    [rule    |-> rule["name"],
     type    |-> "naming",
     message |-> symbols[i].name \o " does not match " \o pattern,
     source  |-> loc(symbols[i].file, symbols[i].line_start)]

\* A variant that does not apply `exclude`.
NamingHitNoExclude(pattern, exclude, name) == ~re_match(pattern, name)

\* The loop body of lines 322-332: is the row reported?
NamingHit(pattern, exclude, name) ==
    /\ ~(exclude # "" /\ re_match(exclude, name))
    /\ ~re_match(pattern, name)

\* The rows of the query of lines 313-319.
NamingRows(kind) ==
    SelectSeq(Positions(symbols), LAMBDA i :
        /\ symbols[i].file \in files
        /\ kind.t = "str" /\ symbols[i].kind = kind.s)

NamingViolations(rule, hits, pattern) ==
    IF hits # <<>> /\ "name" \notin DOMAIN rule THEN Raised("KeyError")
    ELSE Returned([k \in 1..Len(hits) |-> NamingViolation(rule, hits[k], pattern)])

_check_naming_rule(rule, fault) ==
    LET kind    == Get(rule, "kind", VStr("function"))
        pattern == Get(rule, "pattern", VStr(""))
        exclude == Get(rule, "exclude", VStr(""))
    IN  IF ~Truthy(pattern) THEN Returned(<<>>)
        ELSE IF pattern.t # "str" \/ (Truthy(exclude) /\ exclude.t # "str") THEN Raised("TypeError")
        ELSE IF fault THEN Raised("StorageError")
        ELSE NamingViolations(rule,
                 SelectSeq(NamingRows(kind), LAMBDA i :
                     NamingHit(pattern.s, exclude.s, symbols[i].name)),
                 pattern.s)

\* A variant that hands the rules of type layer to the last checker.
CheckerTypesWithLayer == {"dependency", "metric", "naming", "layer"}

CheckerTypes == {"dependency", "metric", "naming"}

\* _CHECKERS.get(rtype)(rule, conn)
Checker(rtype, rule, fault) ==
    CASE rtype = "dependency" -> _check_dependency_rule(rule, fault)
      [] rtype = "metric"     -> _check_metric_rule(rule, fault)
      [] OTHER                -> _check_naming_rule(rule, fault)

(***************************************************************************)
(* The fitness command.                                                    *)
(***************************************************************************)

\* A config file is <<>> when it does not exist and <<lines>> when it does.
Exists(file) == file # <<>>

\* A variant that tries fitness.yml first.
ConfigFileYmlFirst(yaml, yml) == IF Exists(yml) THEN yml ELSE yaml

\* config_path after lines 56-59: fitness.yaml if it exists, else fitness.yml.
ConfigFile(yaml, yml) == IF Exists(yaml) THEN yaml ELSE yml

_load_rules(yaml, yml, has_yaml) ==
    LET config == ConfigFile(yaml, yml)
    IN  IF ~Exists(config) THEN <<>>
        ELSE IF ~has_yaml THEN _parse_simple_yaml(config[1])
        ELSE yaml_rules(config[1])

\* rule_filter.lower() in r.get("name", "").lower()
FilterRules(rules, rule_filter) ==
    SelectSeq(rules, LAMBDA r : Contains(Lower(Get(r, "name", VStr("")).s), Lower(rule_filter)))

ResultEntry(rule, rtype, violations) ==
    LET reason == Get(rule, "reason", VStr(""))
        link   == Get(rule, "link", VStr(""))
    IN  (IF Truthy(reason) THEN "reason" :> reason ELSE <<>>)
        @@ (IF Truthy(link) THEN "link" :> link ELSE <<>>)
        @@ [name       |-> Get(rule, "name", VStr("unnamed")),
            type       |-> rtype,
            status     |-> IF violations = <<>> THEN "PASS" ELSE "FAIL",
            violations |-> Len(violations)]

RECURSIVE EvalRules(_, _, _, _, _)
RECURSIVE Collect(_, _, _, _, _, _)

\* The loop of lines 385-406 from rule i on.  faults: the positions of the
\* rules during whose evaluation the storage raises.
EvalRules(rules, i, faults, rule_results, all_violations) ==
    IF i > Len(rules)
    THEN [rule_results |-> rule_results, all_violations |-> all_violations, raised |-> ""]
    ELSE LET rtype == Get(rules[i], "type", VStr(""))
         IN  IF ~(rtype.t = "str" /\ rtype.s \in CheckerTypes)
             THEN EvalRules(rules, i + 1, faults, rule_results, all_violations)
             ELSE Collect(rules, i, faults, rule_results, all_violations,
                          Checker(rtype.s, rules[i], i \in faults))

\* Lines 391-406 for what the checker of rule i returned or raised.
Collect(rules, i, faults, rule_results, all_violations, res) ==
    IF res.raised # ""
    THEN [rule_results |-> rule_results, all_violations |-> all_violations,
          raised |-> res.raised]
    ELSE EvalRules(rules, i + 1, faults,
                   Append(rule_results, ResultEntry(rules[i], rules[i]["type"].s, res.violations)),
                   all_violations \o res.violations)

CountStatus(rule_results, status) ==
    Len(SelectSeq(rule_results, LAMBDA r : r.status = status))

EnvelopeCap == 100

TextCap == 30

\* The arguments json_envelope is called with at lines 412-424.
\* A variant that lists every violation in the envelope.
FitnessEnvelopeUncapped(rule_results, all_violations) ==
    [command    |-> "fitness",
     summary    |-> [rules_checked    |-> Len(rule_results),
                     passed           |-> CountStatus(rule_results, "PASS"),
                     failed           |-> CountStatus(rule_results, "FAIL"),
                     total_violations |-> Len(all_violations)],
     rules      |-> rule_results,
     violations |-> all_violations]

FitnessEnvelope(rule_results, all_violations) ==
    [command    |-> "fitness",
     summary    |-> [rules_checked    |-> Len(rule_results),
                     passed           |-> CountStatus(rule_results, "PASS"),
                     failed           |-> CountStatus(rule_results, "FAIL"),
                     total_violations |-> Len(all_violations)],
     rules      |-> rule_results,
     violations |-> Limit(all_violations, EnvelopeCap)]

RECURSIVE Concat(_, _, _)
\* seqs[first] \o ... \o seqs[upto]
Concat(seqs, first, upto) ==
    IF first > upto THEN <<>>
    ELSE IF first = upto THEN seqs[first]
    ELSE LET mid == (first + upto) \div 2
         IN  Concat(seqs, first, mid) \o Concat(seqs, mid + 1, upto)

Flatten(seqs) == Concat(seqs, 1, Len(seqs))

\* The echo calls of lines 428-445 for one rule.
RuleLines(rr, explain) ==
    LET reason == IF "reason" \in DOMAIN rr THEN Show(rr.reason) ELSE ""
        link   == IF "link" \in DOMAIN rr THEN Show(rr.link) ELSE ""
        detail == IF rr.violations # 0
                  THEN " (" \o Str(rr.violations) \o " violations)" ELSE ""
        line   == "  [" \o rr.status \o "] " \o Show(rr.name) \o detail
                  \o (IF rr.status = "FAIL" /\ reason # "" THEN " -- Reason: " \o reason ELSE "")
                  \o (IF rr.status = "FAIL" /\ link # "" THEN " (see: " \o link \o ")" ELSE "")
    IN  <<line>>
        \o (IF explain /\ reason # "" THEN <<"    Reason: " \o reason>> ELSE <<>>)
        \o (IF explain /\ link # "" THEN <<"    Link:   " \o link>> ELSE <<>>)

\* The echo calls of lines 449-453 for one violation.
ViolationLines(v) ==
    <<"  " \o Show(v.rule) \o ": " \o v.message>>
    \o (IF "source" \in DOMAIN v /\ v.source # "" THEN <<"    at " \o v.source>> ELSE <<>>)

\* Everything the text branch echoes (lines 426-458), one string per echo.
TextReport(rule_results, all_violations, explain) ==
    LET n     == Len(all_violations)
        shown == Limit(all_violations, TextCap)
    IN  <<"Fitness check: " \o Str(Len(rule_results)) \o " rules\n">>
        \o Flatten([k \in 1..Len(rule_results) |-> RuleLines(rule_results[k], explain)])
        \o (IF n = 0 THEN <<>>
            ELSE <<"\nViolations (" \o Str(n) \o "):\n">>
                 \o Flatten([k \in 1..Len(shown) |-> ViolationLines(shown[k])])
                 \o (IF n > TextCap
                     THEN <<"\n  ... and " \o Str(n - TextCap) \o " more">> ELSE <<>>))
        \o <<"\n" \o Str(CountStatus(rule_results, "PASS")) \o " passed, "
             \o Str(CountStatus(rule_results, "FAIL")) \o " failed">>

\* A variant that fails the command only from the second failed rule on.
ExitStatusSecondFailure(rule_results) ==
    IF CountStatus(rule_results, "FAIL") > 1 THEN 1 ELSE 0

\* The exit of lines 460-461: ctx.exit(1) when a rule failed.
ExitStatus(rule_results) == IF CountStatus(rule_results, "FAIL") > 0 THEN 1 ELSE 0

Idle ==
    [cmd |-> "none", path |-> "", exit |-> 0, raised |-> "", json_mode |-> FALSE,
     loaded |-> <<>>, rules |-> <<>>, faults |-> {},
     rule_results |-> <<>>, all_violations |-> <<>>, stdout |-> <<>>, envelope |-> <<>>,
     target |-> "", trace |-> <<>>]

\* What `fitness` without --init leaves behind (lines 358-461).  An exception
\* that leaves the command ends the process with a traceback and status 1.
Started(json_mode, loaded) ==
    [Idle EXCEPT !.cmd = "fitness", !.json_mode = json_mode, !.loaded = loaded]

\* Lines 408-461: the report and the exit status, or the exception that
\* left the loop (the process then ends with a traceback and status 1).
Report(json_mode, explain, loaded, rules, faults, ev) ==
    IF ev.raised # ""
    THEN [Started(json_mode, loaded) EXCEPT
              !.path = "raised", !.rules = rules, !.faults = faults \cap (1..Len(rules)),
              !.raised = ev.raised, !.exit = 1]
    ELSE [Started(json_mode, loaded) EXCEPT
              !.path = "evaluated", !.rules = rules, !.faults = faults \cap (1..Len(rules)),
              !.rule_results = ev.rule_results,
              !.all_violations = ev.all_violations,
              !.envelope = IF json_mode
                           THEN <<FitnessEnvelope(ev.rule_results, ev.all_violations)>>
                           ELSE <<>>,
              !.stdout = IF json_mode THEN <<>>
                         ELSE TextReport(ev.rule_results, ev.all_violations, explain),
              !.exit = ExitStatus(ev.rule_results)]

\* Lines 375-381 for the rules left by --rule.
Evaluate(json_mode, explain, rule_filter, faults, loaded, rules) ==
    IF rules = <<>>
    THEN [Started(json_mode, loaded) EXCEPT
              !.path = "no_match",
              !.stdout = <<"No rules matching '" \o rule_filter \o "'.">>]
    ELSE Report(json_mode, explain, loaded, rules, faults,
                EvalRules(rules, 1, faults, <<>>, <<>>))

\* Lines 368-376 for the rules _load_rules returned.
Select(json_mode, explain, rule_filter, faults, loaded) ==
    IF loaded = <<>>
    THEN [Started(json_mode, loaded) EXCEPT
              !.path = "no_rules",
              !.stdout = <<"No fitness rules found. Create .roam/fitness.yaml or run:\n  roam fitness --init">>]
    ELSE Evaluate(json_mode, explain, rule_filter, faults, loaded,
                  IF rule_filter # "" THEN FilterRules(loaded, rule_filter) ELSE loaded)

\* What `fitness` without --init leaves behind (lines 358-461).
FitnessOutcome(json_mode, explain, rule_filter, faults) ==
    Select(json_mode, explain, rule_filter, faults,
           _load_rules(yaml_file, yml_file, yaml_available))

\* ensure_index() of commands/resolve.py (line 365): the index is built
\* when the database is missing.
ensure_index(exists) ==
    IF ~exists THEN <<"db_exists", "Indexer.run">> ELSE <<"db_exists">>

\* The rows of a table after the statements of a run: the SELECTs the
\* commands execute leave them alone; a write through a connection opened
\* read-write would replace them (here: delete them), and a write through
\* the read-only connection of open_db(readonly=True) raises and changes
\* nothing.
TableAfter(rows, trace) ==
    IF \E k \in 1..Len(trace) : trace[k] = "write" /\ \E j \in 1..(k - 1) : trace[j] = "open_db_rw"
    THEN <<>> ELSE rows

\* A variant that caches what it computed in the index.
FitnessStepsWriting(out, ensured) ==
    [out EXCEPT !.trace =
        ensured \o <<"_load_rules">>
        \o (IF out.path = "evaluated"
            THEN <<"open_db_rw">> \o [k \in 1..Len(out.rule_results) |-> "execute"] \o <<"write">>
            ELSE IF out.path = "raised" THEN <<"open_db_rw", "execute">>
            ELSE <<>>)]

\* The steps of the run in the order of lines 365-391: the index is
\* ensured, the rules are loaded, and a run that has rules to evaluate
\* opens the database and lets the checkers query it.
FitnessSteps(out, ensured) ==
    [out EXCEPT !.trace =
        ensured \o <<"_load_rules">>
        \o (IF out.path = "evaluated"
            THEN <<"open_db">> \o [k \in 1..Len(out.rule_results) |-> "execute"]
            ELSE IF out.path = "raised" THEN <<"open_db", "execute">>
            ELSE <<>>)]

(***************************************************************************)
(* _init_config: `fitness --init` writes the starter fitness.yaml unless   *)
(* one exists.  The text is that of lines 475-521, split at newlines.      *)
(***************************************************************************)

StarterConfig ==
    <<"# Architectural fitness functions for roam",
      "# Run with: roam fitness",
      "# Use in CI: roam fitness && echo \"Architecture OK\"",
      "# Each rule may include optional 'reason' and 'link' fields for documentation.",
      "",
      "rules:",
      "  # Dependency constraints",
      "  - name: \"No test imports in production\"",
      "    type: dependency",
      "    source: \"src/**\"",
      "    forbidden_target: \"tests/**\"",
      "    reason: \"Production code must not depend on test infrastructure\"",
      "    link: \"\"",
      "",
      "  # - name: \"No direct DB access from handlers\"",
      "  #   type: dependency",
      "  #   from: \"src/handlers/**\"",
      "  #   to: \"src/db/**\"",
      "  #   allow: false",
      "  #   reason: \"Handlers should use service layer for DB access\"",
      "  #   link: \"https://wiki.example.com/arch/layering\"",
      "",
      "  # Metric thresholds",
      "  - name: \"No cycles\"",
      "    type: metric",
      "    metric: cycles",
      "    max: 0",
      "    reason: \"Dependency cycles make the codebase harder to reason about\"",
      "",
      "  - name: \"Health score above 60\"",
      "    type: metric",
      "    metric: health_score",
      "    min: 60",
      "",
      "  - name: \"Max function complexity 25\"",
      "    type: metric",
      "    metric: cognitive_complexity",
      "    max: 25",
      "    reason: \"Functions above this threshold should be split\"",
      "",
      "  # Naming conventions",
      "  # - name: \"Functions use snake_case\"",
      "  #   type: naming",
      "  #   kind: function",
      "  #   pattern: \"^[a-z_][a-z0-9_]*$\"",
      "  #   exclude: \"test_.*\"",
      "">>

_init_config(yaml) == IF Exists(yaml) THEN yaml ELSE <<StarterConfig>>

InitOutcome(yaml) ==
    [Idle EXCEPT !.cmd = "fitness", !.path = "init",
                 !.stdout = IF Exists(yaml)
                            THEN <<"Config already exists: .roam/fitness.yaml">>
                            ELSE <<"Created .roam/fitness.yaml",
                                   "Edit the rules and run: roam fitness">>]

(***************************************************************************)
(* commands/cmd_deps.py: `roam deps PATH`.  The queries of db/queries.py   *)
(* and format_table of output/formatter.py are described by what the       *)
(* command reads from them.                                                *)
(***************************************************************************)

\* The paths of the workspace, in the order the indexer files them.
FilePaths == <<"handlers/h.x", "db/d.x", "api/a.x">>

\* A variant that only reports the missing index.
_ensure_index_no_build(exists) ==
    IF ~exists
    THEN [steps |-> <<"db_exists">>, stdout |-> <<"No index found. Building...">>]
    ELSE [steps |-> <<"db_exists">>, stdout |-> <<>>]

\* What _ensure_index does when the database is there or not (lines 8-12):
\* the steps it takes and what it echoes.
_ensure_index(exists) ==
    IF ~exists
    THEN [steps |-> <<"db_exists", "Indexer.run">>, stdout |-> <<"No index found. Building...">>]
    ELSE [steps |-> <<"db_exists">>, stdout |-> <<>>]

RECURSIVE ReplaceChar(_, _, _)
\* str.replace(a, b) for one-character a and b
ReplaceChar(s, a, b) ==
    IF FindChar(s, a) = 0 THEN s
    ELSE IF Len(s) = 1 THEN b
    ELSE ReplaceChar(SubSeq(s, 1, Len(s) \div 2), a, b)
             \o ReplaceChar(SubSeq(s, Len(s) \div 2 + 1, Len(s)), a, b)

RECURSIVE Like(_, _)
\* text LIKE pat in SQLite: % is any run, _ any character, ASCII letters
\* compare without case.
Like(text, pat) ==
    IF pat = "" THEN text = ""
    ELSE IF Head(pat) = "%"
    THEN Like(text, Tail(pat)) \/ (text # "" /\ Like(Tail(text), pat))
    ELSE /\ text # ""
         /\ (Head(pat) = "_" \/ LowerChar(Head(text)) = LowerChar(Head(pat)))
         /\ Like(Tail(text), Tail(pat))

\* The rows either lookup of lines 25-30 can return for the path: the file
\* of that path, else any one file whose path ends like it (LIMIT 1 of an
\* unordered query).
FileRows(path) ==
    IF path \in files THEN {path}
    ELSE {f \in files : Like(f, "%" \o path)}

\* The symbol edges that leave the file (the query of lines 43-50).
SymEdges(file) ==
    SelectSeq(Positions(edges), LAMBDA k :
        /\ edges[k].source_id \in SymbolIds /\ edges[k].target_id \in SymbolIds
        /\ symbols[edges[k].source_id].file = file)

\* FILE_IMPORTS: the other files the file has edges to, with the number of
\* those edges.
FileImports(file) ==
    SelectSeq(FilePaths, LAMBDA g :
        /\ g \in files /\ g # file
        /\ \E k \in 1..Len(edges) :
              /\ edges[k].source_id \in SymbolIds /\ edges[k].target_id \in SymbolIds
              /\ symbols[edges[k].source_id].file = file
              /\ symbols[edges[k].target_id].file = g)

\* FILE_IMPORTED_BY: the other files that have edges to the file.
FileImportedBy(file) ==
    SelectSeq(FilePaths, LAMBDA g : g \in files /\ g # file /\ file \in
        {FileImports(g)[k] : k \in 1..Len(FileImports(g))})

\* symbol_count of a file edge from file f to file g.
SymbolCount(f, g) ==
    Cardinality({k \in 1..Len(edges) :
        /\ edges[k].source_id \in SymbolIds /\ edges[k].target_id \in SymbolIds
        /\ symbols[edges[k].source_id].file = f
        /\ symbols[edges[k].target_id].file = g})

\* a < b for str
StrLess(a, b) ==
    \E i \in 1..(Len(a) + 1) :
        /\ i <= Len(b)
        /\ SubSeq(a, 1, i - 1) = SubSeq(b, 1, i - 1)
        /\ (i > Len(a) \/ Ord(CharAt(a, i)) < Ord(CharAt(b, i)))

\* sorted(used_from[g]): the names of the symbols of g the file's edges
\* reach (lines 51-53, 57-58).
UsedNames(file, g) ==
    SortSeq(SelectSeq(Positions(symbols), LAMBDA i :
                /\ symbols[i].file = g
                /\ \E k \in 1..Len(SymEdges(file)) : edges[SymEdges(file)[k]].target_id = i
                /\ \A j \in 1..(i - 1) : ~(symbols[j].file = g /\ symbols[j].name = symbols[i].name
                        /\ \E k \in 1..Len(SymEdges(file)) : edges[SymEdges(file)[k]].target_id = j)),
            LAMBDA i, j : StrLess(symbols[i].name, symbols[j].name))

RECURSIVE Join(_, _)
\* sep.join(parts)
Join(parts, sep) ==
    IF parts = <<>> THEN ""
    ELSE IF Len(parts) = 1 THEN parts[1]
    ELSE parts[1] \o sep \o Join(Tail(parts), sep)

UsedShown == 5

\* sym_str of lines 58-60.
SymStr(ids) ==
    Join([k \in 1..Len(Limit(ids, UsedShown)) |-> symbols[ids[k]].name], ", ")
    \o (IF Len(ids) > UsedShown THEN " (+" \o Str(Len(ids) - UsedShown) \o ")" ELSE "")

\* format_table(headers, rows): a line of headers, then a line per row.
format_table(headers, rows) ==
    <<Join(headers, "  ")>> \o [k \in 1..Len(rows) |-> Join(rows[k], "  ")]

\* Lines 38-66.
ImportsLines(file) ==
    IF FileImports(file) # <<>>
    THEN <<"Imports:">>
         \o format_table(<<"file", "symbols", "used">>,
                [k \in 1..Len(FileImports(file)) |->
                    <<FileImports(file)[k], Str(SymbolCount(file, FileImports(file)[k])),
                      SymStr(UsedNames(file, FileImports(file)[k]))>>])
         \o <<"">>
    ELSE <<"Imports: (none)", "">>

\* Lines 68-75.
ImportedByLines(file) ==
    IF FileImportedBy(file) # <<>>
    THEN <<"Imported by:">>
         \o format_table(<<"file", "symbols">>,
                [k \in 1..Len(FileImportedBy(file)) |->
                    <<FileImportedBy(file)[k], Str(SymbolCount(FileImportedBy(file)[k], file))>>])
    ELSE <<"Imported by: (none)">>

\* The queries a found file costs: the lookups, FILE_IMPORTS, the symbol
\* edges when there are imports, FILE_IMPORTED_BY.
FoundSteps(path, file) ==
    (IF path \in files THEN <<"execute">> ELSE <<"execute", "execute">>)
    \o (IF FileImports(file) # <<>> THEN <<"execute", "execute">> ELSE <<"execute">>)
    \o <<"execute">>

\* Lines 31-33: the file is not in the index.
DepsNotFound(json_mode, path, ensured) ==
    [Idle EXCEPT !.cmd = "deps", !.path = "not_found", !.json_mode = json_mode,
                 !.target = path,
                 !.stdout = ensured.stdout \o <<"File not found in index: " \o path>>,
                 !.trace = ensured.steps \o <<"open_db", "execute", "execute">>,
                 !.exit = 1]

\* Lines 35-75 for the row the lookup returned.
DepsFound(json_mode, path, file, ensured) ==
    [Idle EXCEPT !.cmd = "deps", !.path = "found", !.json_mode = json_mode,
                 !.target = path,
                 !.stdout = ensured.stdout \o <<file, "">>
                            \o ImportsLines(file) \o ImportedByLines(file),
                 !.trace = ensured.steps \o <<"open_db">> \o FoundSteps(path, file),
                 !.exit = 0]

\* deps (lines 18-75) for the row frow the lookups return; the command has
\* no JSON branch.
DepsOutcome(json_mode, path, frows, ensured) ==
    IF frows = {} THEN {DepsNotFound(json_mode, path, ensured)}
    ELSE {DepsFound(json_mode, path, file, ensured) : file \in frows}

(***************************************************************************)
(* output/schema_registry.py: the envelope schema and its validator.  An   *)
(* envelope is a dict: a function from its keys to tagged values.          *)
(***************************************************************************)

\* A dict as a value.
VDict(d) == [t |-> "dict", s |-> "", n |-> 0, d |-> d]

\* The keys of ENVELOPE_SCHEMA["required_fields"], in the order the loop of
\* line 37 visits them.
RequiredFields ==
    <<"schema", "schema_version", "command", "version", "timestamp", "summary">>

RECURSIVE Split(_, _)
\* str.split(sep) for a one-character sep
Split(s, sep) ==
    IF FindChar(s, sep) = 0 THEN <<s>>
    ELSE <<SubSeq(s, 1, FindChar(s, sep) - 1)>> \o Split(From(s, FindChar(s, sep) + 1), sep)

\* Lines 37-39: one error per required field that is missing.
MissingErrors(data) ==
    Listed([k \in 1..Len(SelectSeq(RequiredFields, LAMBDA f : f \notin DOMAIN data)) |->
               "Missing required field: "
                   \o SelectSeq(RequiredFields, LAMBDA f : f \notin DOMAIN data)[k]])

\* Lines 41-42.
SummaryErrors(data) ==
    IF "summary" \in DOMAIN data /\ data["summary"].t # "dict"
    THEN <<"'summary' must be a dict">> ELSE <<>>

\* The test of line 46 on the parts of schema_version.
BadVersion(parts) ==
    Len(parts) # 3 \/ ~(\A k \in 1..Len(parts) : IsDigits(parts[k]))

\* Lines 44-47.
VersionErrors(data) ==
    IF "schema_version" \in DOMAIN data /\ BadVersion(Split(data["schema_version"].s, "."))
    THEN <<"'schema_version' must be semantic version (X.Y.Z)">> ELSE <<>>

\* What the call leaves: the pair it returns, or the exception it raises.
Validation(errors) == [raised |-> "", is_valid |-> Len(errors) = 0, errors |-> errors]

\* validate_envelope (lines 31-49).  A schema_version that is not a str has
\* no split method: line 45 raises.
validate_envelope(data) ==
    IF "schema_version" \in DOMAIN data /\ data["schema_version"].t # "str"
    THEN [raised |-> "AttributeError", is_valid |-> FALSE, errors |-> <<>>]
    ELSE Validation(MissingErrors(data) \o SummaryErrors(data) \o VersionErrors(data))

(***************************************************************************)
(* json_envelope (output/formatter.py): the object a command prints in     *)
(* JSON mode.  It carries the schema metadata, the summary it is given,    *)
(* and the payload fields as peer keys.                                    *)
(***************************************************************************)

EngineVersion == "9.0.0"

Timestamp == "2026-02-20T10:00:00Z"

json_envelope(command, summary, payload) ==
    payload @@
    [schema         |-> VStr("roam-envelope-v1"),
     schema_version |-> VStr("1.0.0"),
     command        |-> VStr(command),
     version        |-> VStr(EngineVersion),
     timestamp      |-> VStr(Timestamp),
     summary        |-> VDict(summary)]

\* The envelope of lines 412-424 as printed: the summary counts are ints.
FitnessJson(env) ==
    json_envelope(env.command,
                  [k \in DOMAIN env.summary |-> VInt(env.summary[k])],
                  [rules |-> env.rules, violations |-> env.violations])

(***************************************************************************)
(* json.loads(text) as _run_roam calls it (the standard decoder, strict).  *)
(* A document is a value with JSON whitespace around it; objects become    *)
(* dicts (a repeated key keeps its last value), arrays lists, numbers      *)
(* ints or floats.  Positions are 1-based; a failure carries the message   *)
(* and the position the decoder reports.  The texts here hold no \b and    *)
(* no \uXXXX escape.                                                       *)
(***************************************************************************)

\* A list as a value.
VList(items) == [t |-> "list", s |-> "", n |-> 0, items |-> items]

JsonWs == {" ", "\t", "\n", "\r"}

\* The position of the first character at or after i that is not whitespace.
SkipWs(s, i) == i + LeadingIn(From(s, i), JsonWs)

\* s[i:i+1]
Peek(s, i) == IF i <= Len(s) THEN CharAt(s, i) ELSE ""

Decoded(v, at) == [ok |-> TRUE, v |-> v, at |-> at, msg |-> ""]

Failed(msg, at) == [ok |-> FALSE, v |-> VNone, at |-> at, msg |-> msg]

\* Is the backslash-free position k of s preceded by an even number of
\* backslashes, counted back to position lo?
Unescaped(s, lo, k) == TrailingIn(SubSeq(s, lo, k - 1), {"\\"}) % 2 = 0

\* The character an escape stands for.
EscChar(c) ==
    CASE c = "n" -> "\n" [] c = "t" -> "\t" [] c = "r" -> "\r" [] c = "f" -> "\f"
      [] OTHER -> c

EscChars == {"\"", "\\", "/", "n", "t", "r", "f"}

ControlChars == {"\n", "\t", "\r", "\f"}

\* Does an escape start at position k of the raw text of a string?
EscStart(raw, k) == CharAt(raw, k) = "\\" /\ Unescaped(raw, 1, k)

\* What position k of the raw text contributes to the decoded string.
Piece(raw, k) ==
    IF EscStart(raw, k) THEN ""
    ELSE IF k > 1 /\ EscStart(raw, k - 1) THEN EscChar(CharAt(raw, k))
    ELSE CharAt(raw, k)

RECURSIVE Pieces(_, _, _)
Pieces(raw, lo, hi) ==
    IF lo > hi THEN ""
    ELSE IF lo = hi THEN Piece(raw, lo)
    ELSE LET mid == (lo + hi) \div 2
         IN  Pieces(raw, lo, mid) \o Pieces(raw, mid + 1, hi)

\* Is position k of the raw text one the scanner rejects: a control
\* character, or an escape it does not know?
BadInString(raw, k) ==
    \/ CharAt(raw, k) \in ControlChars
    \/ EscStart(raw, k) /\ CharAt(raw, k + 1) \notin EscChars

\* scanstring: s[i] is the opening quote.
JsonString(s, i) ==
    LET closes(j) == CharAt(s, j) = "\"" /\ Unescaped(s, i + 1, j)
    IN  IF ~(\E j \in (i + 1)..Len(s) : closes(j))
        THEN Failed("Unterminated string starting at", i)
        ELSE LET j   == CHOOSE j \in (i + 1)..Len(s) :
                            closes(j) /\ \A h \in (i + 1)..(j - 1) : ~closes(h)
                 raw == SubSeq(s, i + 1, j - 1)
             IN  IF \E k \in 1..Len(raw) : BadInString(raw, k)
                 THEN LET k == CHOOSE k \in 1..Len(raw) :
                                   BadInString(raw, k) /\ \A h \in 1..(k - 1) : ~BadInString(raw, h)
                      IN  Failed(IF CharAt(raw, k) \in ControlChars
                                 THEN "Invalid control character at"
                                 ELSE "Invalid \\escape",
                                 i + k)
                 ELSE Decoded(VStr(Pieces(raw, 1, Len(raw))), j + 1)

NumChars == LET t == "-+.eE0123456789" IN {CharAt(t, k) : k \in 1..Len(t)}

\* (0|[1-9]\d*)
IsIntPart(t) == IsDigits(t) /\ (Len(t) = 1 \/ Head(t) # "0")

\* (\.\d+)?
IsFracPart(t) == t = "" \/ (Head(t) = "." /\ IsDigits(Tail(t)))

\* ([eE][-+]?\d+)?
IsExpPart(t) ==
    \/ t = ""
    \/ /\ Head(t) \in {"e", "E"}
       /\ IsDigits(IF Len(t) > 1 /\ CharAt(t, 2) \in {"-", "+"} THEN From(t, 3) ELSE Tail(t))

\* Does NUMBER_RE match all of t?  (-?)(int)(frac)?(exp)?
IsNumber(t) ==
    LET b == IF t # "" /\ Head(t) = "-" THEN Tail(t) ELSE t
    IN  \E p \in 1..Len(b) : \E q \in p..Len(b) :
            /\ IsIntPart(SubSeq(b, 1, p))
            /\ IsFracPart(SubSeq(b, p + 1, q))
            /\ IsExpPart(From(b, q + 1))

\* The length of the longest number at position i, 0 when there is none.
NumberLen(s, i) ==
    LET run == LeadingIn(From(s, i), NumChars)
    IN  IF \E k \in 1..run : IsNumber(SubSeq(s, i, i + k - 1))
        THEN CHOOSE k \in 1..run :
                 /\ IsNumber(SubSeq(s, i, i + k - 1))
                 /\ \A h \in (k + 1)..run : ~IsNumber(SubSeq(s, i, i + h - 1))
        ELSE 0

\* int(t) when the number has neither fraction nor exponent, float(t) otherwise.
NumberOf(t) ==
    IF IsInt(t) THEN VInt(IntOf(t)) ELSE VFloat(t)

\* The constants the scanner knows, longest first where one starts another.
JsonConstants ==
    <<[text |-> "null", v |-> VNone], [text |-> "true", v |-> VBool(TRUE)],
      [text |-> "false", v |-> VBool(FALSE)], [text |-> "NaN", v |-> VFloat("nan")],
      [text |-> "Infinity", v |-> VFloat("inf")], [text |-> "-Infinity", v |-> VFloat("-inf")]>>

ConstantAt(s, i) ==
    SelectSeq(JsonConstants, LAMBDA c : StartsWith(From(s, i), c.text))

RECURSIVE JsonValue(_, _)
RECURSIVE JsonMembers(_, _, _)
RECURSIVE JsonItems(_, _, _)

\* JSONObject: i is the position after the brace.
JsonObject(s, i) ==
    LET j == SkipWs(s, i)
    IN  IF Peek(s, j) = "}" THEN Decoded(VDict(<<>>), j + 1)
        ELSE IF Peek(s, j) # "\""
        THEN Failed("Expecting property name enclosed in double quotes", j)
        ELSE JsonMembers(s, j, <<>>)

\* The loop of JSONObject: a key starts at j, acc holds the pairs read so far.
JsonMembers(s, j, acc) ==
    LET key == JsonString(s, j)
    IN  IF ~key.ok THEN key
        ELSE LET k == SkipWs(s, key.at)
             IN  IF Peek(s, k) # ":" THEN Failed("Expecting ':' delimiter", k)
                 ELSE LET val == JsonValue(s, SkipWs(s, k + 1))
                      IN  IF ~val.ok THEN val
                          ELSE LET m    == SkipWs(s, val.at)
                                   n    == SkipWs(s, m + 1)
                                   more == (key.v.s :> val.v) @@ acc
                               IN  IF Peek(s, m) = "}" THEN Decoded(VDict(more), m + 1)
                                   ELSE IF Peek(s, m) # ","
                                   THEN Failed("Expecting ',' delimiter", m)
                                   ELSE IF Peek(s, n) # "\""
                                   THEN Failed("Expecting property name enclosed in double quotes", n)
                                   ELSE JsonMembers(s, n, more)

\* JSONArray: i is the position after the bracket.
JsonArray(s, i) ==
    LET j == SkipWs(s, i)
    IN  IF Peek(s, j) = "]" THEN Decoded(VList(<<>>), j + 1)
        ELSE JsonItems(s, j, <<>>)

\* The loop of JSONArray: a value starts at j.
JsonItems(s, j, acc) ==
    LET val == JsonValue(s, j)
    IN  IF ~val.ok THEN val
        ELSE LET m == SkipWs(s, val.at)
             IN  IF Peek(s, m) = "]" THEN Decoded(VList(Append(acc, val.v)), m + 1)
                 ELSE IF Peek(s, m) # "," THEN Failed("Expecting ',' delimiter", m)
                 ELSE JsonItems(s, SkipWs(s, m + 1), Append(acc, val.v))

\* scan_once at position i.
JsonValue(s, i) ==
    CASE Peek(s, i) = "\"" -> JsonString(s, i)
      [] Peek(s, i) = "{"  -> JsonObject(s, i + 1)
      [] Peek(s, i) = "["  -> JsonArray(s, i + 1)
      [] OTHER ->
            IF NumberLen(s, i) > 0
            THEN Decoded(NumberOf(SubSeq(s, i, i + NumberLen(s, i) - 1)), i + NumberLen(s, i))
            ELSE IF ConstantAt(s, i) # <<>>
            THEN Decoded(ConstantAt(s, i)[1].v, i + Len(ConstantAt(s, i)[1].text))
            ELSE Failed("Expecting value", i)

\* JSONDecoder.decode: one value, whitespace around it, nothing after it.
json_loads(s) ==
    LET val == JsonValue(s, SkipWs(s, 1))
    IN  IF ~val.ok THEN val
        ELSE IF SkipWs(s, val.at) # Len(s) + 1 THEN Failed("Extra data", SkipWs(s, val.at))
        ELSE val

\* str(exc) of a JSONDecodeError: the message with the line, the column
\* and the 0-based offset of the failure.
JsonErrorText(s, failure) ==
    LET newlines == {k \in 1..(failure.at - 1) : k <= Len(s) /\ CharAt(s, k) = "\n"}
        lastnl   == IF newlines = {} THEN 0
                    ELSE CHOOSE k \in newlines : \A h \in newlines : h <= k
    IN  failure.msg \o ": line " \o Str(Cardinality(newlines) + 1)
            \o " column " \o Str(failure.at - lastnl)
            \o " (char " \o Str(failure.at - 1) \o ")"

(***************************************************************************)
(* mcp_server.py: the tool-call surface.  Each tool runs one roam command  *)
(* in a subprocess through _run_roam.  What the subprocess does is an      *)
(* input: it exits with a status, stdout and stderr, or it outlives the    *)
(* timeout, or it cannot be launched.                                      *)
(***************************************************************************)

\* What subprocess.run leaves.
Exited(returncode, stdout, stderr) ==
    [kind |-> "exit", returncode |-> returncode, stdout |-> stdout, stderr |-> stderr, msg |-> ""]

TimeoutExpired == [kind |-> "timeout", returncode |-> 0, stdout |-> "", stderr |-> "", msg |-> ""]

LaunchError(msg) == [kind |-> "oserror", returncode |-> 0, stdout |-> "", stderr |-> "", msg |-> msg]

RunTimeout == 60

\* The dicts of lines 67-76.
ErrorDict(error) == VDict([error |-> VStr(error)])

FailedDict(error, exit_code) == VDict([error |-> VStr(error), exit_code |-> VInt(exit_code)])

\* A variant that reads stdout whatever the exit status.
RunResultAnyStatus(proc) ==
    IF Strip(proc.stdout) # ""
    THEN IF json_loads(proc.stdout).ok THEN json_loads(proc.stdout).v
         ELSE ErrorDict("Failed to parse JSON output: "
                            \o JsonErrorText(proc.stdout, json_loads(proc.stdout)))
    ELSE FailedDict(IF Strip(proc.stderr) # "" THEN Strip(proc.stderr) ELSE "Command failed",
                    proc.returncode)

\* Lines 65-70 and 73-74 for a subprocess that exited.
RunResult(proc) ==
    IF proc.returncode = 0 /\ Strip(proc.stdout) # ""
    THEN IF json_loads(proc.stdout).ok THEN json_loads(proc.stdout).v
         ELSE ErrorDict("Failed to parse JSON output: "
                            \o JsonErrorText(proc.stdout, json_loads(proc.stdout)))
    ELSE FailedDict(IF Strip(proc.stderr) # "" THEN Strip(proc.stderr) ELSE "Command failed",
                    proc.returncode)

\* _run_roam(args, root) (lines 40-76) when the subprocess does `proc`: the
\* command line it runs, where, and what it returns (it raises nothing:
\* line 75 catches every Exception).
_run_roam(args, root, proc) ==
    [cmd     |-> <<"roam", "--json">> \o args,
     cwd     |-> root,
     timeout |-> RunTimeout,
     raised  |-> "",
     value   |-> CASE proc.kind = "exit"    -> RunResult(proc)
                   [] proc.kind = "timeout" -> ErrorDict("Command timed out after " \o Str(RunTimeout) \o "s")
                   [] OTHER                 -> ErrorDict(proc.msg)]

\* The tools of the server (lines 84-323), in the order of the file.
Tools ==
    <<"understand", "health", "preflight", "search_symbol", "context", "trace", "impact",
      "file_info", "pr_risk", "breaking_changes", "affected_tests", "dead_code",
      "complexity_report", "repo_map">>

\* The parameters of the tools at their defaults.
Defaults ==
    [target |-> "", staged |-> FALSE, query |-> "", symbol |-> "", task |-> "",
     source |-> "", path |-> "", threshold |-> 15, budget |-> 0, root |-> "."]

\* A variant in which preflight forgets --staged.
ToolArgsStagedDropped(tool, p) ==
    CASE tool = "understand"        -> <<"understand">>
      [] tool = "health"            -> <<"health">>
      [] tool = "preflight"         -> <<"preflight">> \o (IF p.target # "" THEN <<p.target>> ELSE <<>>)
      [] tool = "search_symbol"     -> <<"search", p.query>>
      [] tool = "context"           -> <<"context", p.symbol>>
                                           \o (IF p.task # "" THEN <<"--task", p.task>> ELSE <<>>)
      [] tool = "trace"             -> <<"trace", p.source, p.target>>
      [] tool = "impact"            -> <<"impact", p.symbol>>
      [] tool = "file_info"         -> <<"file", p.path>>
      [] tool = "pr_risk"           -> <<"pr-risk">> \o (IF p.staged THEN <<"--staged">> ELSE <<>>)
      [] tool = "breaking_changes"  -> <<"breaking", p.target>>
      [] tool = "affected_tests"    -> <<"affected-tests">>
                                           \o (IF p.target # "" THEN <<p.target>> ELSE <<>>)
                                           \o (IF p.staged THEN <<"--staged">> ELSE <<>>)
      [] tool = "dead_code"         -> <<"dead">>
      [] tool = "complexity_report" -> <<"complexity", "--threshold", Str(p.threshold)>>
      [] tool = "repo_map"          -> <<"map">>
                                           \o (IF p.budget > 0 THEN <<"--budget", Str(p.budget)>> ELSE <<>>)

\* The argument list each tool hands to _run_roam.
ToolArgs(tool, p) ==
    CASE tool = "understand"        -> <<"understand">>                                 \* line 97
      [] tool = "health"            -> <<"health">>                                     \* line 109
      [] tool = "preflight"         -> <<"preflight">>                                  \* lines 129-134
                                           \o (IF p.target # "" THEN <<p.target>> ELSE <<>>)
                                           \o (IF p.staged THEN <<"--staged">> ELSE <<>>)
      [] tool = "search_symbol"     -> <<"search", p.query>>                            \* line 146
      [] tool = "context"           -> <<"context", p.symbol>>                          \* lines 167-170
                                           \o (IF p.task # "" THEN <<"--task", p.task>> ELSE <<>>)
      [] tool = "trace"             -> <<"trace", p.source, p.target>>                  \* line 183
      [] tool = "impact"            -> <<"impact", p.symbol>>                           \* line 195
      [] tool = "file_info"         -> <<"file", p.path>>                               \* line 207
      [] tool = "pr_risk"           -> <<"pr-risk">>                                    \* lines 229-232
                                           \o (IF p.staged THEN <<"--staged">> ELSE <<>>)
      [] tool = "breaking_changes"  -> <<"breaking", p.target>>                         \* line 249
      [] tool = "affected_tests"    -> <<"affected-tests">>                             \* lines 270-275
                                           \o (IF p.target # "" THEN <<p.target>> ELSE <<>>)
                                           \o (IF p.staged THEN <<"--staged">> ELSE <<>>)
      [] tool = "dead_code"         -> <<"dead">>                                       \* line 287
      [] tool = "complexity_report" -> <<"complexity", "--threshold", Str(p.threshold)>> \* line 304
      [] tool = "repo_map"          -> <<"map">>                                        \* lines 320-323
                                           \o (IF p.budget > 0 THEN <<"--budget", Str(p.budget)>> ELSE <<>>)

\* A tool called with parameters p while the subprocess does `proc`: it
\* makes one call of _run_roam and returns what that call returns.
ToolCall(tool, p, proc) ==
    [made |-> TRUE, tool |-> tool, params |-> p, proc |-> proc,
     runs |-> <<_run_roam(ToolArgs(tool, p), p.root, proc)>>]

(***************************************************************************)
(* catalog/tasks.py: the catalog of tasks and the ways to solve each, and  *)
(* its three lookups.  The dict CATALOG is kept as the list of its items   *)
(* in the order of the file; None is the empty tuple.                      *)
(***************************************************************************)

Way(id, name, time, space, rank, tip) ==
    [id |-> id, name |-> name, time |-> time, space |-> space, rank |-> rank, tip |-> tip]

Task(id, name, category, kind, ways) ==
    [id |-> id, name |-> name, category |-> category, kind |-> kind, ways |-> ways]

\* CATALOG (lines 11-219).
CATALOG ==
    <<
      Task("sorting", "Sorting", "ordering", "algorithm",
           <<Way("builtin-sort", "Built-in sort", "O(n log n)", "O(n)", 1, "Use sorted() / list.sort() / Arrays.sort()"),
             Way("manual-sort", "Manual bubble/selection sort", "O(n^2)", "O(1)", 10, "")>>),
      Task("search-sorted", "Search in sorted data", "searching", "algorithm",
           <<Way("binary-search", "Binary search", "O(log n)", "O(1)", 1, "Use bisect / binary_search / Arrays.binarySearch()"),
             Way("linear-scan", "Linear scan", "O(n)", "O(1)", 10, "")>>),
      Task("membership", "Collection membership test", "collections", "algorithm",
           <<Way("set-lookup", "Set/hash lookup", "O(1) amortized", "O(n)", 1, "Convert to set for repeated lookups"),
             Way("list-scan", "List linear scan", "O(n) per lookup", "O(1)", 10, "")>>),
      Task("string-concat", "String building", "string", "algorithm",
           <<Way("join-builder", "Join / StringBuilder", "O(n)", "O(n)", 1, "Collect parts in a list, join once at the end"),
             Way("loop-concat", "Loop concatenation", "O(n^2)", "O(n)", 10, "")>>),
      Task("unique", "Deduplication", "collections", "algorithm",
           <<Way("set-dedup", "Set-based dedup", "O(n)", "O(n)", 1, "Use set() / dict.fromkeys() / [...new Set(arr)]"),
             Way("nested-dedup", "Nested loop dedup", "O(n^2)", "O(n)", 10, "")>>),
      Task("max-min", "Find max/min", "searching", "idiom",
           <<Way("builtin-minmax", "Built-in max()/min()", "O(n)", "O(1)", 1, "Use max() / min() / Math.max() / Collections.max()"),
             Way("manual-loop", "Manual tracking loop", "O(n)", "O(1)", 5, "")>>),
      Task("accumulation", "Summation / reduction", "math", "idiom",
           <<Way("builtin-sum", "Built-in sum/reduce", "O(n)", "O(1)", 1, "Use sum() / math.prod() / reduce() / stream().reduce()"),
             Way("manual-sum", "Manual accumulator", "O(n)", "O(1)", 5, "")>>),
      Task("fibonacci", "Fibonacci computation", "math", "algorithm",
           <<Way("iterative-fib", "Iterative / memoized", "O(n)", "O(1)", 1, "Use iterative loop or @lru_cache / @cache"),
             Way("naive-recursive", "Naive recursion", "O(2^n)", "O(n)", 10, "")>>),
      Task("manual-power", "Exponentiation", "math", "algorithm",
           <<Way("builtin-pow", "Built-in pow()", "O(log n)", "O(1)", 1, "Use pow(base, exp, mod) / ** / Math.pow()"),
             Way("loop-multiply", "Loop multiplication", "O(n)", "O(1)", 10, "")>>),
      Task("manual-gcd", "GCD computation", "math", "idiom",
           <<Way("builtin-gcd", "Built-in math.gcd", "O(log n)", "O(1)", 1, "Use math.gcd() / BigInteger.gcd() / __gcd()"),
             Way("manual-gcd", "Manual loop", "O(n) worst case", "O(1)", 5, "")>>),
      Task("groupby", "Group by key", "collections", "idiom",
           <<Way("defaultdict-groupby", "defaultdict / Collectors.groupingBy", "O(n)", "O(n)", 1, "Use defaultdict(list) / setdefault() / Collectors.groupingBy()"),
             Way("manual-check", "Manual key-existence check", "O(n)", "O(n)", 5, "")>>),
      Task("nested-lookup", "Nested loop lookup", "collections", "algorithm",
           <<Way("hash-join", "Hash-map join", "O(n+m)", "O(n)", 1, "Build a dict/set from one collection, iterate the other"),
             Way("nested-iteration", "Nested iteration", "O(n*m)", "O(1)", 10, "")>>),
      Task("string-reverse", "String reversal", "string", "idiom",
           <<Way("builtin-reverse", "Built-in reverse/slice", "O(n)", "O(n)", 1, "Use s[::-1] / StringBuilder.reverse() / strings.Reverse()"),
             Way("manual-reverse", "Manual char loop", "O(n)", "O(n)", 5, "")>>),
      Task("matrix-mult", "Matrix multiplication", "math", "algorithm",
           <<Way("blas-mult", "NumPy / BLAS (optimized)", "O(n^3)", "O(n^2)", 1, "Use numpy.dot() / np.matmul() / @ operator (100-1000x faster via SIMD+cache)"),
             Way("naive-triple", "Naive triple loop", "O(n^3)", "O(n^2)", 10, "")>>),
      Task("busy-wait", "Polling / busy wait", "concurrency", "algorithm",
           <<Way("event-wait", "Event / condition variable", "O(1) wake", "O(1)", 1, "Use threading.Event / asyncio.Event / select() / Promise"),
             Way("sleep-loop", "Sleep-in-loop polling", "O(k) polls", "O(1)", 10, "")>>),
      Task("regex-in-loop", "Regex compilation in loop", "string", "algorithm",
           <<Way("precompiled", "Pre-compiled regex", "O(p + n*m)", "O(p)", 1, "Compile once outside the loop: re.compile() / new RegExp() / Pattern.compile()"),
             Way("compile-per-iter", "Compile per iteration", "O(n*(p+m))", "O(p)", 10, "")>>),
      Task("io-in-loop", "I/O call in loop (N+1 query)", "concurrency", "algorithm",
           <<Way("batch-query", "Batch query / bulk I/O", "O(1) round trips", "O(n)", 1, "Use WHERE IN (...) / bulk API / batch fetch instead of per-item queries"),
             Way("loop-query", "Per-item query in loop", "O(n) round trips", "O(1)", 10, "")>>),
      Task("list-prepend", "List prepend / front-removal in loop", "collections", "algorithm",
           <<Way("deque-ops", "Deque / append+reverse", "O(1) per op", "O(n)", 1, "Use collections.deque / ArrayDeque / append+reverse instead of insert(0,x)"),
             Way("insert-front", "Insert/remove at front", "O(n) per op", "O(n)", 10, "")>>),
      Task("sort-to-select", "Sort to select min/max/top-k", "ordering", "algorithm",
           <<Way("direct-select", "Direct min/max or heap", "O(n) or O(n log k)", "O(1) or O(k)", 1, "Use min()/max() for extremes, heapq.nsmallest/nlargest for top-k"),
             Way("full-sort", "Full sort then subscript", "O(n log n)", "O(n)", 10, "")>>),
      Task("loop-lookup", "Repeated collection lookup in loop", "collections", "algorithm",
           <<Way("set-prebuilt", "Pre-built set/dict", "O(1) per lookup", "O(m)", 1, "Build a set/dict from the lookup collection once, then use O(1) membership"),
             Way("method-scan", ".index()/.contains() in loop", "O(m) per lookup", "O(1)", 10, "")>>),
      Task("branching-recursion", "Branching recursion without memoization", "math", "algorithm",
           <<Way("memoized", "Memoized / iterative DP", "O(n)", "O(n)", 1, "Add @cache / @lru_cache, or convert to iterative with a table"),
             Way("naive-branching", "Naive branching recursion", "O(2^n)", "O(n)", 10, "")>>),
      Task("quadratic-string", "Quadratic string building in loop", "string", "algorithm",
           <<Way("join-parts", "Collect + join", "O(n)", "O(n)", 1, "Append parts to a list, then ''.join(parts) at the end"),
             Way("augment-concat", "str += in loop", "O(n^2)", "O(n)", 10, "")>>),
      Task("loop-invariant-call", "Loop-invariant call inside loop", "collections", "algorithm",
           <<Way("hoisted", "Call hoisted before loop", "O(1) per iter", "O(1)", 1, "Move the call before the loop and store the result in a variable"),
             Way("repeated-call", "Repeated call per iteration", "O(f(x)) per iter", "O(1)", 10, "")>>)>>

None == <<>>

\* CATALOG.get(task_id): the entry, or None.
get_task(task_id) ==
    IF \E k \in 1..Len(CATALOG) : CATALOG[k].id = task_id
    THEN CATALOG[CHOOSE k \in 1..Len(CATALOG) : CATALOG[k].id = task_id]
    ELSE None

\* The first element of a list that passes a test, given as the positions
\* that pass; `otherwise` when none does.
FirstAt(seq, hits, otherwise) ==
    IF hits = {} THEN otherwise
    ELSE seq[CHOOSE k \in hits : \A h \in hits : k <= h]

\* get_way (lines 227-235).
get_way(task_id, way_id) ==
    IF get_task(task_id) = None THEN None
    ELSE FirstAt(get_task(task_id).ways,
                 {k \in 1..Len(get_task(task_id).ways) : get_task(task_id).ways[k].id = way_id},
                 None)

\* A variant that takes the way listed last.
best_way_listed_last(task_id) ==
    IF get_task(task_id) = None THEN None
    ELSE IF get_task(task_id).ways # <<>>
    THEN get_task(task_id).ways[Len(get_task(task_id).ways)]
    ELSE None

\* best_way (lines 238-246).
best_way(task_id) ==
    IF get_task(task_id) = None THEN None
    ELSE FirstAt(get_task(task_id).ways,
                 {k \in 1..Len(get_task(task_id).ways) : get_task(task_id).ways[k].rank = 1},
                 IF get_task(task_id).ways # <<>> THEN get_task(task_id).ways[1] ELSE None)

(***************************************************************************)
(* The indexes and configs a behaviour starts from.                        *)
(***************************************************************************)

MaxSmall == 5     \* the largest small index holds MaxSmall symbols
MaxEdges == 2     \* and at most MaxEdges edge rows
MaxOver  == 1     \* large indexes: up to MaxOver complexity rows beyond OffenderLimit
MaxStale == 1     \* refreshes between two rebuilds of graph_metrics

\* The i-th symbol an extractor reported.
SymAt(i) ==
    [name        |-> CASE i = 1 -> "serve"
                       [] i = 2 -> "query"
                       [] i = 3 -> "GetUser"
                       [] i = 4 -> "test_Y"
                       [] i = 5 -> "main"
                       [] i = 6 -> "Repo"
                       [] OTHER -> "f" \o Str(i),
     kind        |-> IF i = 6 THEN "class" ELSE "function",
     file        |-> CASE i = 1 -> "handlers/h.x"
                       [] i = 2 -> "db/d.x"
                       [] i = 3 -> "api/a.x"
                       [] OTHER -> FilePaths[(i % 3) + 1],
     is_exported |-> i \in {2, 3, 5, 6},
     line_start  |-> 10 * i]

\* The cognitive complexity stored for the i-th symbol (functions only).
Cx(i) == 1 + ((3 * i) % 5)

Edge(s, t, k, l) == [source_id |-> s, target_id |-> t, kind |-> k, line |-> l]

CandidateEdges ==
    <<Edge(1, 2, "call", 7), Edge(1, 2, "reference", 0), Edge(2, 1, "call", 4),
      Edge(1, 3, "call", 9), Edge(3, 3, "call", 2)>>

\* The index of a workspace with n symbols whose edge rows are the candidates
\* at the positions `picked`.
EdgesOf(n, picked) ==
    SelectSeq(CandidateEdges, LAMBDA e :
        /\ e.source_id <= n /\ e.target_id <= n
        /\ \E k \in picked : CandidateEdges[k] = e)

SymbolsOf(n) == [i \in 1..n |-> SymAt(i)]

MetricsOf(n) == [i \in {j \in 1..n : SymAt(j).kind = "function"} |-> Cx(i)]

\* An empty index, a two-symbol one and the largest small one.
SmallSizes == {0, 2, MaxSmall}

\* Enough symbols for OffenderLimit - 1 .. OffenderLimit + MaxOver complexity
\* rows (symbol 6 is a class and has none).
LargeSizes == OffenderLimit..(OffenderLimit + MaxOver + 1)

Picks(n) ==
    {P \in SUBSET {k \in 1..Len(CandidateEdges) :
                      CandidateEdges[k].source_id <= n /\ CandidateEdges[k].target_id <= n} :
        Cardinality(P) <= MaxEdges}

DenyRule ==
    <<"  - name: \"No DB from handlers\"",
      "    type: dependency",
      "    from: \"handlers/**\"",
      "    to: \"db/**\"",
      "    allow: false",
      "    reason: \"Handlers use the service layer\"",
      "    link: \"https://wiki/arch\"">>

AllowRule ==
    <<"  - name: \"Handlers only reach DB\"",
      "    type: dependency",
      "    from: \"handlers/**\"",
      "    to: \"db/**\"",
      "    allow: true">>

SnakeRule ==
    <<"  - name: \"Functions use snake_case\"",
      "    type: naming",
      "    kind: function",
      "    pattern: \"^[a-z_][a-z0-9_]*$\"",
      "    exclude: \"test_*\"">>

ClassRule ==
    <<"  - name: \"Classes are lower case\"",
      "    type: naming",
      "    kind: class",
      "    pattern: \"[a-z]\"">>

MetricRule(name, metric, bound, n) ==
    <<"  - name: \"" \o name \o "\"",
      "    type: metric",
      "    metric: " \o metric,
      "    " \o bound \o ": " \o Str(n)>>

UnknownRule ==
    <<"  - name: \"No layer skips\"",
      "    type: layer",
      "    from: \"**\"">>

UntypedRule ==
    <<"  - name: \"No owner yet\"",
      "    from: \"**\"",
      "    allow: false">>

ComplexityConfigs ==
    {<<"rules:">> \o MetricRule("No complexity at all", "cognitive_complexity", "max", 0),
     <<"rules:">> \o MetricRule("Max function complexity", "cognitive_complexity", "max", 3)
                   \o MetricRule("Min function complexity", "cognitive_complexity", "min", 3)}

\* Four complexity rules, one of which passes: more violations together than
\* an envelope lists.
ManyViolationsConfig ==
    <<"rules:">> \o MetricRule("Max function complexity", "cognitive_complexity", "max", 0)
                 \o MetricRule("No negative complexity", "cognitive_complexity", "min", 0)
                 \o MetricRule("Moderate functions", "cognitive_complexity", "max", 2)
                 \o MetricRule("Flat functions", "cognitive_complexity", "max", 1)

YamlConfigs ==
    ComplexityConfigs \cup
    {<<"rules:">> \o DenyRule,
     <<"rules:">> \o AllowRule \o SnakeRule,
     <<"# CI gates", "rules:">> \o MetricRule("No cycles", "cycles", "max", 0)
                   \o MetricRule("Health score minimum", "health_score", "min", 70),
     <<"rules:">> \o MetricRule("No dead exports", "dead_exports", "max", 0)
                   \o MetricRule("No god components", "god_components", "max", 0),
     <<"rules:">> \o MetricRule("No bottlenecks", "bottlenecks", "max", 0)
                   \o MetricRule("No layer violations", "layer_violations", "max", 0),
     <<"rules:">> \o UnknownRule \o ClassRule,
     <<"rules:">> \o UntypedRule \o SnakeRule \o UnknownRule,
     <<"# no rules yet", "rules:">>}

YmlConfig ==
    <<"rules:", "  - name: \"No edges at all\"", "    type: dependency", "    allow: false">>

\* A config whose rule gives its type first: YAML, but beyond the fallback's
\* `- name:` dialect.
TypeFirstConfig ==
    <<"rules:",
      "  - type: naming",
      "    name: \"Classes are lower case\"",
      "    kind: class",
      "    pattern: \"[a-z]\"">>

\* A rule whose author put the boolean in quotes.
QuotedAllowConfig ==
    <<"rules:",
      "  - name: \"No DB from handlers\"",
      "    type: dependency",
      "    from: \"handlers/**\"",
      "    to: \"db/**\"",
      "    allow: \"false\"">>

RuleFilters == {"", "No"}

MaxFaultAt == 1

\* The storage raises during no rule, or during the rule at one position.
FaultChoices == {{}} \cup {{k} : k \in 1..MaxFaultAt}

\* The paths `deps` is asked about: a file, the end of its path, in other
\* case, with a backslash, with an underscore, the end of every path, and no
\* file at all.
DepsPaths == {"handlers/h.x", "h.x", "H.X", "db\\d.x", "h_x", ".x", "nope.x"}

\* The configs of the runs that compare the commands.
CliConfigs == {<<"rules:">> \o DenyRule, <<"rules:">> \o UnknownRule \o ClassRule}

\* The envelopes handed to the validator: any of the required fields (and
\* a payload field or not), with summaries and schema versions of every shape.
Summaries ==
    {VDict([verdict |-> VStr("ok")]), VDict([verdict |-> VInt(1)]),
     VDict([rules_checked |-> VInt(2)]), VDict(<<>>), VStr("ok"), VNone}

SchemaVersions ==
    {VStr("1.0.0"), VStr("10.2.33"), VStr("1.0"), VStr("1.0.0.0"), VStr("1.x.0"),
     VStr("1..0"), VStr(""), VInt(1)}

EnvelopeWith(fields, summary, schema_version) ==
    [f \in fields |->
        CASE f = "schema"         -> VStr("roam-envelope-v1")
          [] f = "schema_version" -> schema_version
          [] f = "command"        -> VStr("fitness")
          [] f = "version"        -> VStr("9.0.0")
          [] f = "timestamp"      -> VStr("2026-02-20T10:00:00Z")
          [] f = "summary"        -> summary
          [] OTHER                -> VInt(0)]

Envelopes ==
    {EnvelopeWith(fields, summary, schema_version) :
        fields \in SUBSET ({RequiredFields[k] : k \in 1..Len(RequiredFields)} \cup {"rules"}),
        summary \in Summaries, schema_version \in SchemaVersions}

\* What a roam subprocess may print, with the value json.loads gives for
\* it (absent when the text is no JSON document).
StdoutCases ==
    {[text |-> "", json |-> <<>>],
     [text |-> " \n", json |-> <<>>],
     [text |-> "{}", json |-> <<VDict(<<>>)>>],
     [text |-> "{\"summary\": {\"verdict\": \"ok\"}, \"n\": 2}\n",
      json |-> <<VDict([summary |-> VDict([verdict |-> VStr("ok")]), n |-> VInt(2)])>>],
     [text |-> " {\"a\": [1, -2.5e3, true, null], \"a\": \"x\\ny\"} ",
      json |-> <<VDict([a |-> VStr("x\ny")])>>],
     [text |-> "{\"error\": \"no index\"}", json |-> <<VDict([error |-> VStr("no index")])>>],
     [text |-> "[0, \"\"]", json |-> <<VList(<<VInt(0), VStr("")>>)>>],
     [text |-> "-12", json |-> <<VInt(0 - 12)>>],
     [text |-> "No fitness rules found.", json |-> <<>>],
     [text |-> "{\"a\": 1,}", json |-> <<>>],
     [text |-> "{\"a\": 1} x", json |-> <<>>],
     [text |-> "{\"a\" 1}", json |-> <<>>],
     [text |-> "{\"a\": 01}", json |-> <<>>],
     [text |-> "[1, 2", json |-> <<>>],
     [text |-> "\"\\x\"", json |-> <<>>],
     [text |-> "\"a\nb\"", json |-> <<>>],
     [text |-> "{\"a", json |-> <<>>]}

ExitCodes == {0, 1, 2}

Stderrs == {"", "Error: no such command\n"}

\* Everything the subprocess of a call may do.
ProcOutcomes ==
    {Exited(rc, out.text, err) : rc \in ExitCodes, out \in StdoutCases, err \in Stderrs}
        \cup {TimeoutExpired, LaunchError("[Errno 2] No such file or directory: 'roam'")}

\* The values a caller gives each parameter a tool has (the others stay at
\* their defaults).
ParamSpace ==
    [target    : {"", "src/a.py", "HEAD~1"},
     staged    : BOOLEAN,
     query     : {"load"},
     symbol    : {"Loader.run"},
     task      : {"", "refactor"},
     source    : {"main"},
     path      : {"src/a.py"},
     threshold : {15, 0, 30},
     budget    : {0, 500, 0 - 1},
     root      : {".", "/repo"}]

\* The parameters of each tool, as its signature lists them.
Signature(tool) ==
    CASE tool \in {"understand", "health", "dead_code"} -> {"root"}
      [] tool \in {"preflight", "affected_tests"}       -> {"target", "staged", "root"}
      [] tool = "search_symbol"                         -> {"query", "root"}
      [] tool = "context"                               -> {"symbol", "task", "root"}
      [] tool = "trace"                                 -> {"source", "target", "root"}
      [] tool = "impact"                                -> {"symbol", "root"}
      [] tool = "file_info"                             -> {"path", "root"}
      [] tool = "pr_risk"                               -> {"staged", "root"}
      [] tool = "breaking_changes"                      -> {"target", "root"}
      [] tool = "complexity_report"                     -> {"threshold", "root"}
      [] tool = "repo_map"                              -> {"budget", "root"}

\* The calls of a tool: each of its parameters at one of the values.
ParamChoices(tool) ==
    {[k \in DOMAIN Defaults |-> IF k \in Signature(tool) THEN c[k] ELSE Defaults[k]] :
        c \in ParamSpace}

\* The task ids asked for: those of the catalog, the empty one and an
\* unknown one.
TaskIds == {CATALOG[k].id : k \in 1..Len(CATALOG)} \cup {"", "no-such-task"}

\* The way ids asked for: those of the catalog (some belong to another
\* task than the one asked about), the empty one and an unknown one.
WayIds ==
    UNION {{CATALOG[k].ways[j].id : j \in 1..Len(CATALOG[k].ways)} : k \in 1..Len(CATALOG)}
        \cup {"", "no-such-way"}

\* The docstring stored with the i-th symbol.
DocOf(i) ==
    CASE i = 1 -> "Serves the user requests."
      [] i = 2 -> "Query the users table for a user"
      [] i = 3 -> "Get a user"
      [] i = 5 -> "Running the server"
      [] OTHER -> ""

\* What is searched for: words of one symbol, of several, of none, and
\* nothing but stopwords.
Queries == {"get user", "user requests", "serving users", "UserTable", "repo", "the of", "zebra", ""}

TopKs == {1, 2, 3, 10}

(***************************************************************************)
(* search/tfidf.py: TF-IDF search over the names and docstrings of the     *)
(* symbols.  A document is the token list of a symbol, a vector maps each  *)
(* of its terms to TF x IDF.  Weights are kept as integers: the IDF in     *)
(* tenths, the TF as the raw count (a vector scaled by the length of its   *)
(* document has the same cosine).  A score is the square of the cosine,    *)
(* as the exact fraction num/den: it orders results as the cosine does.    *)
(***************************************************************************)

\* The letters and digits.
Alnum ==
    LET t == UpperCase \o LowerCase \o Digits IN {CharAt(t, k) : k \in 1..Len(t)}

LowerChars == {CharAt(LowerCase, k) : k \in 1..Len(LowerCase)}

\* Does a token start at position i: a letter or digit after something
\* else, or a capital after a small letter (a camel boundary)?
TokenStart(s, i) ==
    /\ CharAt(s, i) \in Alnum
    /\ \/ i = 1
       \/ CharAt(s, i - 1) \notin Alnum
       \/ CharAt(s, i) \in UpperChars /\ CharAt(s, i - 1) \in LowerChars

\* The last position of the token that starts at i.
TokenEnd(s, i) ==
    CHOOSE j \in i..Len(s) :
        /\ \A k \in i..j : CharAt(s, k) \in Alnum
        /\ \A k \in (i + 1)..j : ~TokenStart(s, k)
        /\ j = Len(s) \/ CharAt(s, j + 1) \notin Alnum \/ TokenStart(s, j + 1)

Stopwords ==
    {"the", "a", "an", "is", "of", "to", "from", "in", "on", "for", "with",
     "return", "function", "class", "def", "var", "let", "const"}

EndsWith(s, suffix) ==
    Len(suffix) <= Len(s) /\ SubSeq(s, Len(s) - Len(suffix) + 1, Len(s)) = suffix

MinStem == 3

\* Suffix folding: a trailing -ing, -ed or -s goes when at least MinStem
\* characters stay.
Fold(t) ==
    IF EndsWith(t, "ing") /\ Len(t) - 3 >= MinStem THEN SubSeq(t, 1, Len(t) - 3)
    ELSE IF EndsWith(t, "ed") /\ Len(t) - 2 >= MinStem THEN SubSeq(t, 1, Len(t) - 2)
    ELSE IF EndsWith(t, "s") /\ Len(t) - 1 >= MinStem THEN SubSeq(t, 1, Len(t) - 1)
    ELSE t

\* The words of a text, split at camel and snake boundaries, lower-cased.
Words(s, starts) == [k \in 1..Len(starts) |-> Lower(SubSeq(s, starts[k], TokenEnd(s, starts[k])))]

\* The words without the stopwords, folded.
Folded(words) ==
    [k \in 1..Len(words) |-> Fold(words[k])]

tokenize(text) ==
    Folded(SelectSeq(Listed(Words(text, SelectSeq(Positions(text), LAMBDA i : TokenStart(text, i)))),
                     LAMBDA w : w \notin Stopwords))

\* The document of a symbol row: its name, then its docstring.
Document(row) == Listed(tokenize(row.name) \o tokenize(row.docstring))

Terms(doc) == {doc[k] : k \in 1..Len(doc)}

Count(doc, term) == Cardinality({k \in 1..Len(doc) : doc[k] = term})

\* 10 ln k, rounded, for k = 1..10.
LnTenths == <<0, 7, 11, 14, 16, 18, 19, 21, 22, 23>>

\* IDF = log((N + 1) / (df + 1)) + 1, in tenths.
Idf(docs, term) ==
    LnTenths[Len(docs) + 1]
        - LnTenths[Cardinality({k \in 1..Len(docs) : term \in Terms(docs[k])}) + 1] + 10

\* The weight of a term in the vector of a document, over the corpus docs.
Weight(docs, doc, term) == Count(doc, term) * Idf(docs, term)

\* The dot product of the vectors of a and b, and the squared norm of a.
Dot(docs, a, b) == SumFn([t \in Terms(a) \cap Terms(b) |-> Weight(docs, a, t) * Weight(docs, b, t)])

Norm2(docs, a) == Dot(docs, a, a)

\* cosine_similarity squared, as a fraction; 0 when a vector is empty.
cosine_similarity(docs, a, b) ==
    IF Norm2(docs, a) = 0 \/ Norm2(docs, b) = 0 THEN [num |-> 0, den |-> 1]
    ELSE [num |-> Dot(docs, a, b) * Dot(docs, a, b), den |-> Norm2(docs, a) * Norm2(docs, b)]

\* The product of two naturals below Base * Base, as its digits to Base
\* from the highest down.
Wide(a, b) ==
    LET Base == 32768
        p0 == (a % Base) * (b % Base)
        p1 == (a \div Base) * (b % Base) + (a % Base) * (b \div Base) + (p0 \div Base)
        p2 == (a \div Base) * (b \div Base) + (p1 \div Base)
    IN  <<p2 \div Base, p2 % Base, p1 % Base, p0 % Base>>

\* Is the number with digits x less than the one with digits y?
DigitsLess(x, y) ==
    \E k \in 1..Len(x) : x[k] < y[k] /\ \A j \in 1..(k - 1) : x[j] = y[j]

\* Is score x less than score y?
ScoreLess(x, y) == DigitsLess(Wide(x.num, y.den), Wide(y.num, x.den))

\* The rows search reads: the symbols with their docstrings.
SearchRows(syms) == [i \in 1..Len(syms) |-> [name |-> syms[i].name, docstring |-> DocOf(i)]]

\* A variant that keeps the scored symbols in row order.
RankedInRowOrder(scored) ==
    SortSeq(scored, LAMBDA x, y : x.id < y.id)

\* The symbols scored against the query, best first (ties in row order).
Ranked(scored) ==
    SortSeq(scored, LAMBDA x, y : ScoreLess(y.score, x.score)
                                     \/ (~ScoreLess(x.score, y.score) /\ x.id < y.id))

\* ranked[:top_k]
Top(ranked, top_k) == SubSeq(ranked, 1, IF top_k < Len(ranked) THEN top_k ELSE Len(ranked))

\* Every symbol with its score for the query vector.
Scored(rows, docs, query) ==
    [i \in 1..Len(rows) |->
        [id |-> i, name |-> rows[i].name, score |-> cosine_similarity(docs, query, docs[i])]]

\* search(conn, query, top_k): the symbols that match, best first, at most
\* top_k of them.  keep_zero: whether a symbol that shares no term with the
\* query counts as a match.
search(syms, query, top_k, keep_zero) ==
    LET rows == SearchRows(syms)
        docs == Listed([i \in 1..Len(rows) |-> Document(rows[i])])
    IN  Top(Ranked(SelectSeq(Listed(Scored(rows, docs, Document([name |-> query, docstring |-> ""]))),
                             LAMBDA r : keep_zero \/ r.score.num > 0)),
            top_k)

(***************************************************************************)
(* Behaviours.                                                             *)
(***************************************************************************)

\* The index right after indexing a workspace of n symbols, graph_metrics built.
Indexed(n, picked) ==
    /\ files = {FilePaths[k] : k \in 1..Len(FilePaths)}
    /\ symbols = SymbolsOf(n)
    /\ edges = EdgesOf(n, picked)
    /\ symbol_metrics = MetricsOf(n)
    /\ graph_metrics = ComputeGraphMetrics(SymbolsOf(n), EdgesOf(n, picked))
    /\ stale = 0
    /\ last = Idle

\* Small indexes of every shape under every rule set, in fitness.yaml, with
\* the YAML library installed.
Init ==
    /\ \E n \in SmallSizes : \E picked \in Picks(n) : Indexed(n, picked)
    /\ yaml_file \in {<<c>> : c \in YamlConfigs}
    /\ yml_file = <<>>
    /\ yaml_available = TRUE
    /\ db_exists = TRUE
    /\ validated = NoCall /\ mcp = NoCall /\ lib = NoCall

\* Large indexes, around OffenderLimit complexity rows, under the complexity rules.
InitLarge ==
    /\ \E n \in LargeSizes : Indexed(n, {})
    /\ yaml_file \in {<<c>> : c \in ComplexityConfigs \cup {ManyViolationsConfig}}
    /\ yml_file = <<>>
    /\ yaml_available \in BOOLEAN
    /\ db_exists = TRUE
    /\ validated = NoCall /\ mcp = NoCall /\ lib = NoCall

\* Every layout of the two config files, over one index.
InitConfig ==
    /\ \E picked \in SUBSET {1} : Indexed(MaxSmall, picked)
    /\ yaml_file \in {<<>>} \cup {<<c>> : c \in YamlConfigs \cup {TypeFirstConfig, QuotedAllowConfig}}
    /\ yml_file \in {<<>>, <<YmlConfig>>}
    /\ yaml_available \in BOOLEAN
    /\ db_exists = TRUE
    /\ validated = NoCall /\ mcp = NoCall /\ lib = NoCall

\* `roam fitness [--rule F] [--explain]`, with or without the global --json.
FitnessRun ==
    /\ last = Idle
    /\ \E json_mode \in BOOLEAN, rule_filter \in RuleFilters, faults \in FaultChoices :
       \E explain \in (IF json_mode THEN {FALSE} ELSE BOOLEAN) :
           last' = FitnessSteps(FitnessOutcome(json_mode, explain, rule_filter, faults),
                                ensure_index(db_exists))
    /\ db_exists' = TRUE
    /\ graph_metrics' = TableAfter(graph_metrics, last'.trace)
    /\ UNCHANGED <<files, symbols, edges, symbol_metrics, yaml_file, yml_file,
                   yaml_available, stale, calls>>

\* `roam fitness --init` (lines 361-363).
FitnessInit ==
    /\ last = Idle
    /\ yaml_file' = _init_config(yaml_file)
    /\ last' = InitOutcome(yaml_file)
    /\ UNCHANGED <<index, yml_file, yaml_available, stale, db_exists, calls>>

\* The process has exited; the next command can start.
Return ==
    /\ last # Idle
    /\ last' = Idle
    /\ UNCHANGED <<index, yaml_file, yml_file, yaml_available, stale, db_exists, calls>>

\* The indexer re-extracts a changed file f: its rows are replaced (the same
\* symbols and edges here) and the graph_metrics rows of its symbols are
\* invalidated.
Reindex ==
    /\ last = Idle
    /\ db_exists
    /\ stale < MaxStale
    /\ \E f \in files :
        /\ \E i \in SymbolIds : symbols[i].file = f
        /\ graph_metrics' = [i \in {j \in DOMAIN graph_metrics : symbols[j].file # f}
                                |-> graph_metrics[i]]
    /\ stale' = stale + 1
    /\ UNCHANGED <<files, symbols, edges, symbol_metrics, yaml_file, yml_file,
                   yaml_available, last, db_exists, calls>>

\* An analysis that finds a symbol without a graph_metrics row rebuilds the table.
RebuildGraphMetrics ==
    /\ last = Idle
    /\ db_exists
    /\ \E i \in SymbolIds : i \notin DOMAIN graph_metrics
    /\ graph_metrics' = ComputeGraphMetrics(symbols, edges)
    /\ stale' = 0
    /\ UNCHANGED <<files, symbols, edges, symbol_metrics, yaml_file, yml_file,
                   yaml_available, last, db_exists, calls>>

\* `roam [--json] deps PATH`.
DepsRun ==
    /\ last = Idle
    /\ \E json_mode \in BOOLEAN, path \in DepsPaths :
           last' \in DepsOutcome(json_mode, ReplaceChar(path, "\\", "/"),
                                 FileRows(ReplaceChar(path, "\\", "/")),
                                 _ensure_index(db_exists))
    /\ db_exists' = TRUE
    /\ graph_metrics' = TableAfter(graph_metrics, last'.trace)
    /\ UNCHANGED <<files, symbols, edges, symbol_metrics, yaml_file, yml_file,
                   yaml_available, stale, calls>>

\* A test calls validate_envelope(data).
ValidateEnvelope ==
    /\ ~validated.made
    /\ \E data \in Envelopes :
           validated' = [made |-> TRUE, data |-> data, result |-> validate_envelope(data)]
    /\ UNCHANGED <<index, yaml_file, yml_file, yaml_available, stale, last, db_exists, mcp, lib>>

\* The call has returned (or raised); the next one can be made.
ValidateDone ==
    /\ validated.made
    /\ validated' = NoCall
    /\ UNCHANGED <<index, yaml_file, yml_file, yaml_available, stale, last, db_exists, mcp, lib>>

\* An MCP client calls a tool.
McpCall ==
    /\ ~mcp.made
    /\ \E k \in 1..Len(Tools) : \E p \in ParamChoices(Tools[k]), proc \in ProcOutcomes :
           mcp' = ToolCall(Tools[k], p, proc)
    /\ UNCHANGED <<index, yaml_file, yml_file, yaml_available, stale, last, db_exists, validated,
                   lib>>

\* The tool has returned; the next call can be made.
McpDone ==
    /\ mcp.made
    /\ mcp' = NoCall
    /\ UNCHANGED <<index, yaml_file, yml_file, yaml_available, stale, last, db_exists, validated,
                   lib>>

\* A detector looks a task or a way up in the catalog.
CatalogCall ==
    /\ ~lib.made
    /\ \E task_id \in TaskIds :
           \/ lib' = [made |-> TRUE, fn |-> "get_task", task_id |-> task_id, way_id |-> "",
                      result |-> get_task(task_id)]
           \/ lib' = [made |-> TRUE, fn |-> "best_way", task_id |-> task_id, way_id |-> "",
                      result |-> best_way(task_id)]
           \/ \E way_id \in WayIds :
                  lib' = [made |-> TRUE, fn |-> "get_way", task_id |-> task_id, way_id |-> way_id,
                          result |-> get_way(task_id, way_id)]
    /\ UNCHANGED <<index, yaml_file, yml_file, yaml_available, stale, last, db_exists,
                   validated, mcp>>

\* search(conn, query, top_k=top_k) on the open index.
SearchCall ==
    /\ ~lib.made
    /\ \E query \in Queries, top_k \in TopKs, keep_zero \in BOOLEAN :
           lib' = [made |-> TRUE, fn |-> "search", query |-> query, top_k |-> top_k,
                   result |-> search(symbols, query, top_k, keep_zero)]
    /\ UNCHANGED <<index, yaml_file, yml_file, yaml_available, stale, last, db_exists,
                   validated, mcp>>

\* The library call has returned; the next one can be made.
LibDone ==
    /\ lib.made
    /\ lib' = NoCall
    /\ UNCHANGED <<index, yaml_file, yml_file, yaml_available, stale, last, db_exists,
                   validated, mcp>>

Next == FitnessRun \/ FitnessInit \/ Return \/ Reindex \/ RebuildGraphMetrics

Spec == Init /\ [][Next]_vars

SpecLarge == InitLarge /\ [][Next]_vars

SpecConfig == InitConfig /\ [][Next]_vars

\* The commands side by side, on a workspace that is indexed or not yet.
InitCli ==
    /\ \E picked \in {P \in Picks(MaxSmall) : P \subseteq {1, 3, 4}} : Indexed(MaxSmall, picked)
    /\ yaml_file \in {<<>>} \cup {<<c>> : c \in CliConfigs}
    /\ yml_file = <<>>
    /\ yaml_available = TRUE
    /\ db_exists \in BOOLEAN
    /\ validated = NoCall /\ mcp = NoCall /\ lib = NoCall

NextCli == FitnessRun \/ FitnessInit \/ DepsRun \/ Return

SpecCli == InitCli /\ [][NextCli]_vars

\* The validator on its own: no command runs.
InitEnvelope ==
    /\ Indexed(0, {})
    /\ yaml_file = <<>> /\ yml_file = <<>>
    /\ yaml_available = TRUE
    /\ db_exists = TRUE
    /\ validated = NoCall /\ mcp = NoCall /\ lib = NoCall

NextEnvelope == ValidateEnvelope \/ ValidateDone

SpecEnvelope == InitEnvelope /\ [][NextEnvelope]_vars

\* The tool-call surface on its own: the subprocesses are inputs.
InitMcp ==
    /\ Indexed(0, {})
    /\ yaml_file = <<>> /\ yml_file = <<>>
    /\ yaml_available = TRUE
    /\ db_exists = TRUE
    /\ validated = NoCall /\ mcp = NoCall /\ lib = NoCall

NextMcp == McpCall \/ McpDone

SpecMcp == InitMcp /\ [][NextMcp]_vars

\* The catalog on its own.
InitCatalog ==
    /\ Indexed(0, {})
    /\ yaml_file = <<>> /\ yml_file = <<>>
    /\ yaml_available = TRUE
    /\ db_exists = TRUE
    /\ validated = NoCall /\ mcp = NoCall /\ lib = NoCall

NextCatalog == CatalogCall \/ LibDone

SpecCatalog == InitCatalog /\ [][NextCatalog]_vars

\* Searches over small indexes.
InitSearch ==
    /\ \E n \in SmallSizes \cup {1, 3} : Indexed(n, {})
    /\ yaml_file = <<>> /\ yml_file = <<>>
    /\ yaml_available = TRUE
    /\ db_exists = TRUE
    /\ validated = NoCall /\ mcp = NoCall /\ lib = NoCall

NextSearch == SearchCall \/ LibDone

SpecSearch == InitSearch /\ [][NextSearch]_vars

(***************************************************************************)
(* Properties of a fitness run, read off `last` and the index it ran on.   *)
(***************************************************************************)

\* The last command was `fitness` and its rule loop ran to the end.
Evaluated == last.cmd = "fitness" /\ last.path = "evaluated"

\* The positions of the rules of the run that have the given type and during
\* which the storage did not raise.
RulesOfType(type) ==
    {i \in 1..Len(last.rules) :
        /\ Get(last.rules[i], "type", VStr("")) = VStr(type)
        /\ "name" \in DOMAIN last.rules[i]
        /\ i \notin last.faults}

\* The violations the run collected for the rule at position i.
ViolationsOf(i) ==
    SelectSeq(last.all_violations, LAMBDA v : v.rule = last.rules[i]["name"])

SourceFile(e) == symbols[e.source_id].file
TargetFile(e) == symbols[e.target_id].file

\* C1: a fitness run that got through its rules exits with 1 exactly when
\* some evaluated rule produced a violation and with 0 when none did, in
\* text mode and in JSON mode; a run that found no rule to evaluate exits 0.
C1_ExitCodeSignalsViolations ==
    (last.cmd = "fitness" /\ last.path # "raised") =>
        /\ last.exit = (IF last.all_violations # <<>> THEN 1 ELSE 0)
        /\ (last.exit = 1) <=>
              (\E k \in 1..Len(last.rule_results) : last.rule_results[k].violations > 0)
        /\ \A k \in 1..Len(last.rule_results) :
              last.rule_results[k].violations =
                  Len(SelectSeq(last.all_violations,
                                LAMBDA v : v.rule = last.rule_results[k].name))

\* A JSON run in which the first rule passed and the second failed.
C1_Witness ==
    /\ Evaluated /\ last.json_mode /\ last.exit = 1
    /\ Len(last.rule_results) = 2
    /\ last.rule_results[1].violations = 0
    /\ last.rule_results[2].violations > 0

\* The edge rows a dependency rule with these patterns forbids, in row order.
ForbiddenRows(from_pattern, to_pattern) ==
    SelectSeq(Positions(edges), LAMBDA k :
        /\ fnmatch(SourceFile(edges[k]), from_pattern)
        /\ fnmatch(TargetFile(edges[k]), to_pattern))

\* The violations V are one per row of `rows`, in order.
OnePerRow(V, rows) ==
    /\ Len(V) = Len(rows)
    /\ \A k \in 1..Len(V) :
          /\ V[k].type = "dependency"
          /\ V[k].message = symbols[edges[rows[k]].source_id].name \o " -> "
                            \o symbols[edges[rows[k]].target_id].name
          /\ V[k].target = TargetFile(edges[rows[k]])
          /\ V[k].edge_kind = edges[rows[k]].kind

IsDenyHandlersToDb(rule) ==
    /\ Get(rule, "from", VStr("**")) = VStr("handlers/**")
    /\ Get(rule, "to", VStr("**")) = VStr("db/**")
    /\ Get(rule, "allow", VBool(FALSE)) = VBool(FALSE)

\* C2: a dependency rule with allow=false reports one violation for each
\* edge row whose source file matches `from` and whose target file matches
\* `to`, and nothing else; under {from: handlers/**, to: db/**, allow: false}
\* the violations are as many as the edge rows from under handlers/ to under
\* db/, so the single edge serve -> query yields exactly one.
C2_DenyRuleReportsMatchingEdges ==
    Evaluated =>
        \A i \in RulesOfType("dependency") :
            ~Truthy(Get(last.rules[i], "allow", VBool(FALSE))) =>
                /\ OnePerRow(ViolationsOf(i),
                             ForbiddenRows(Get(last.rules[i], "from", VStr("**")).s,
                                           Get(last.rules[i], "to", VStr("**")).s))
                /\ IsDenyHandlersToDb(last.rules[i]) =>
                      Len(ViolationsOf(i)) =
                          Cardinality({k \in 1..Len(edges) :
                              /\ StartsWith(SourceFile(edges[k]), "handlers/")
                              /\ StartsWith(TargetFile(edges[k]), "db/")})

\* The scenario of the claim: the single edge serve -> query, one violation, exit 1.
C2_Witness ==
    /\ Evaluated /\ last.exit = 1
    /\ edges = <<Edge(1, 2, "call", 7)>>
    /\ \E i \in RulesOfType("dependency") :
          IsDenyHandlersToDb(last.rules[i]) /\ Len(ViolationsOf(i)) = 1

\* C3: a dependency rule with allow=true reports every edge row whose source
\* file matches `from` and whose target file does not match `to`.
C3_AllowRuleReportsInverse ==
    Evaluated =>
        \A i \in RulesOfType("dependency") :
            Truthy(Get(last.rules[i], "allow", VBool(FALSE))) =>
                \A k \in 1..Len(edges) :
                    (/\ fnmatch(SourceFile(edges[k]), Get(last.rules[i], "from", VStr("**")).s)
                     /\ ~fnmatch(TargetFile(edges[k]), Get(last.rules[i], "to", VStr("**")).s))
                    => \E j \in 1..Len(ViolationsOf(i)) :
                          ViolationsOf(i)[j].message =
                              symbols[edges[k].source_id].name \o " -> "
                              \o symbols[edges[k].target_id].name

\* An allow=true rule was evaluated over an edge from handlers/ to api/.
C3_Witness ==
    /\ Evaluated
    /\ \E i \in RulesOfType("dependency") :
          /\ Truthy(Get(last.rules[i], "allow", VBool(FALSE)))
          /\ \E k \in 1..Len(edges) :
                SourceFile(edges[k]) = "handlers/h.x" /\ TargetFile(edges[k]) = "api/a.x"

\* The symbols a naming rule over `kind` reports, in row order.
MisnamedRows(kind, pattern, exclude) ==
    SelectSeq(Positions(symbols), LAMBDA i :
        /\ symbols[i].kind = kind
        /\ ~re_match(pattern, symbols[i].name)
        /\ ~(exclude # "" /\ re_match(exclude, symbols[i].name)))

\* The violations V are one per symbol of `rows`, in order.
OnePerSymbol(V, rows, pattern) ==
    /\ Len(V) = Len(rows)
    /\ \A k \in 1..Len(V) :
          /\ V[k].type = "naming"
          /\ V[k].message = symbols[rows[k]].name \o " does not match " \o pattern
          /\ V[k].source = loc(symbols[rows[k]].file, symbols[rows[k]].line_start)

SnakeChars == {CharAt(LowerCase \o Digits \o "_", k) : k \in 1..(Len(LowerCase) + Len(Digits) + 1)}

\* A name written in snake_case: lower-case letters, digits and underscores,
\* not starting with a digit.
IsSnakeCase(name) ==
    /\ name # ""
    /\ ~IsDigit(CharAt(name, 1))
    /\ \A k \in 1..Len(name) : CharAt(name, k) \in SnakeChars

IsSnakeRule(rule) ==
    /\ Get(rule, "kind", VStr("function")) = VStr("function")
    /\ Get(rule, "pattern", VStr("")) = VStr("^[a-z_][a-z0-9_]*$")
    /\ Get(rule, "exclude", VStr("")) = VStr("test_*")

\* C4: a naming rule with a non-empty pattern reports one violation for each
\* symbol of its kind whose name does not match `pattern` and is not matched
\* by `exclude`, and none for any other symbol; under the snake_case rule for
\* functions with exclude test_* the reported symbols are the functions whose
\* name is not snake_case and does not begin with "test".
C4_NamingRuleReportsMisnamed ==
    Evaluated =>
        \A i \in RulesOfType("naming") :
            Truthy(Get(last.rules[i], "pattern", VStr(""))) =>
                /\ OnePerSymbol(ViolationsOf(i),
                                MisnamedRows(Get(last.rules[i], "kind", VStr("function")).s,
                                             Get(last.rules[i], "pattern", VStr("")).s,
                                             Get(last.rules[i], "exclude", VStr("")).s),
                                Get(last.rules[i], "pattern", VStr("")).s)
                /\ IsSnakeRule(last.rules[i]) =>
                      {ViolationsOf(i)[k].source : k \in 1..Len(ViolationsOf(i))} =
                          {loc(symbols[j].file, symbols[j].line_start) : j \in
                              {j \in SymbolIds : /\ symbols[j].kind = "function"
                                                 /\ ~IsSnakeCase(symbols[j].name)
                                                 /\ ~StartsWith(symbols[j].name, "test")}}

\* The snake_case rule ran over GetUser (reported) and test_Y (excluded).
C4_Witness ==
    /\ Evaluated
    /\ \E i \in RulesOfType("naming") :
          /\ IsSnakeRule(last.rules[i])
          /\ Len(ViolationsOf(i)) = 1
          /\ \E j \in SymbolIds : symbols[j].name = "test_Y"
          /\ \E j \in SymbolIds : symbols[j].name = "GetUser"

\* The values a metric rule measures: one for an aggregate metric, one per
\* symbol for cognitive_complexity.
MeasuredValues(metric) ==
    CASE metric = "cycles" -> {Len(find_cycles(edges))}
      [] metric = "health_score" -> IF Len(symbols) = 0 THEN {} ELSE {FitnessHealthScore}
      [] metric = "cognitive_complexity" -> {symbol_metrics[i] : i \in DOMAIN symbol_metrics}
      [] metric \in CountedMetrics -> {CountOf(metric)}
      [] OTHER -> {}

\* value > max or value < min for the bounds the rule states.
OutOfBounds(rule, value) ==
    \/ "max" \in DOMAIN rule /\ Greater(value, rule["max"]) = "T"
    \/ "min" \in DOMAIN rule /\ Less(value, rule["min"]) = "T"

MetricNameOf(rule) == Get(rule, "metric", VStr("")).s

\* C5: a metric rule reports a violation when a value it measures is greater
\* than its max or less than its min, and none when every measured value is
\* within the bounds.
C5_MetricRuleComparesBounds ==
    Evaluated =>
        \A i \in RulesOfType("metric") :
            (ViolationsOf(i) # <<>>) <=>
                (\E value \in MeasuredValues(MetricNameOf(last.rules[i])) :
                    OutOfBounds(last.rules[i], value))

\* A cognitive_complexity rule with `min` ran over a symbol below the minimum.
C5_Witness ==
    /\ Evaluated
    /\ \E i \in RulesOfType("metric") :
          /\ MetricNameOf(last.rules[i]) = "cognitive_complexity"
          /\ "min" \in DOMAIN last.rules[i]
          /\ \E j \in DOMAIN symbol_metrics :
                Less(symbol_metrics[j], last.rules[i]["min"]) = "T"

\* The symbols whose complexity is above the integer m.
Offenders(m) == {i \in DOMAIN symbol_metrics : symbol_metrics[i] > m}

\* The offenders that the violations V report.
Reported(V, m) ==
    {i \in Offenders(m) : \E k \in 1..Len(V) :
        /\ V[k].source = loc(symbols[i].file, symbols[i].line_start)
        /\ V[k].value = symbol_metrics[i]}

\* V lists min(OffenderLimit, all) distinct offenders, the most complex ones,
\* in descending order of complexity.
TopOffenders(V, m) ==
    /\ Len(V) = (IF Cardinality(Offenders(m)) < OffenderLimit
                 THEN Cardinality(Offenders(m)) ELSE OffenderLimit)
    /\ Cardinality(Reported(V, m)) = Len(V)
    /\ \A k \in 1..Len(V) : V[k].value > m /\ V[k].metric = "cognitive_complexity"
    /\ \A k \in 1..(Len(V) - 1) : V[k].value >= V[k + 1].value
    /\ \A i \in Offenders(m) \ Reported(V, m) :
          \A k \in 1..Len(V) : symbol_metrics[i] <= V[k].value

ComplexityRulesWithMax ==
    {i \in RulesOfType("metric") :
        /\ MetricNameOf(last.rules[i]) = "cognitive_complexity"
        /\ Get(last.rules[i], "max", VNone).t = "int"}

\* C6: a cognitive_complexity rule with max=M reports one violation per
\* symbol whose complexity is greater than M, at most OffenderLimit of them,
\* those being the most complex ones in descending order of complexity; a
\* symbol whose complexity equals M is not reported.
C6_ComplexityTopOffenders ==
    Evaluated =>
        \A i \in ComplexityRulesWithMax :
            TopOffenders(ViolationsOf(i), last.rules[i]["max"].n)

\* More than OffenderLimit symbols were above the maximum and OffenderLimit
\* were reported.
C6_Witness ==
    /\ Evaluated
    /\ \E i \in ComplexityRulesWithMax :
          /\ Cardinality(Offenders(last.rules[i]["max"].n)) > OffenderLimit
          /\ Len(ViolationsOf(i)) = OffenderLimit

(***************************************************************************)
(* The health score and the dead exports of the analyses `health` and      *)
(* `dead`, which every consumer of these values is to agree with.          *)
(***************************************************************************)

\* Symbols treated as live whatever their in-degree.
EntryPointNames == {"main", "__main__"}

\* dead(): the exported symbols without an incoming edge that are no entry points.
DeadExports ==
    {i \in SymbolIds :
        /\ symbols[i].is_exported
        /\ symbols[i].name \notin EntryPointNames
        /\ Pred(edges, i) = {}}

ExportedSymbols == {i \in SymbolIds : symbols[i].is_exported}

\* The symbols with in_degree + out_degree above GodDegree.
GodComponents ==
    {i \in SymbolIds : Cardinality(Pred(edges, i)) + Cardinality(Succ(edges, i)) > GodDegree}

GodPenaltyCap == 20

DeadPenaltyCap == 15

DeadPenaltyStep == 5

IssuePenaltyCap == 30

Capped(n, cap) == IF n > cap THEN cap ELSE n

\* 100 - 2 * (tangle_ratio * 100) - god components (capped) - 1 per 5% of
\* dead exports (capped) - the issue penalty, clamped to 0..100.
HealthScore(issue_penalty) ==
    LET tangle == (200 * SumLen(find_cycles(edges))) \div Len(symbols)
        god    == Capped(Cardinality(GodComponents), GodPenaltyCap)
        dead   == IF ExportedSymbols = {} THEN 0
                  ELSE Capped(((100 * Cardinality(DeadExports))
                                  \div Cardinality(ExportedSymbols)) \div DeadPenaltyStep,
                              DeadPenaltyCap)
        raw    == 100 - tangle - god - dead - issue_penalty
    IN  IF raw < 0 THEN 0 ELSE raw

MetricRulesOn(metric) ==
    {i \in RulesOfType("metric") : MetricNameOf(last.rules[i]) = metric}

\* C7: the health_score a metric rule compares is the health score of the
\* index for some issue penalty between 0 and IssuePenaltyCap.
C7_HealthScoreIsTheHealthScore ==
    Evaluated =>
        \A i \in MetricRulesOn("health_score") :
            Len(symbols) > 0 =>
                /\ \E p \in 0..IssuePenaltyCap : FitnessHealthScore = HealthScore(p)
                /\ \A k \in 1..Len(ViolationsOf(i)) :
                      \E p \in 0..IssuePenaltyCap : ViolationsOf(i)[k].value = HealthScore(p)

\* A health_score rule ran over an index without cycles that has a dead export.
C7_Witness ==
    /\ Evaluated
    /\ MetricRulesOn("health_score") # {}
    /\ find_cycles(edges) = <<>>
    /\ DeadExports # {}

\* C8: the counts a metric rule compares are never taken from an index with
\* missing graph_metrics rows, and dead_exports is the number of exported
\* symbols without an incoming edge that are no entry points.
C8_CountsFromRecomputedRows ==
    Evaluated =>
        /\ \A i \in MetricRulesOn("dead_exports") :
              /\ DeadExportsCount = Cardinality(DeadExports)
              /\ \A k \in 1..Len(ViolationsOf(i)) :
                    ViolationsOf(i)[k].value = Cardinality(DeadExports)
        /\ \A i \in RulesOfType("metric") :
              MetricNameOf(last.rules[i]) \in CountedMetrics =>
                  \A j \in SymbolIds : j \in DOMAIN graph_metrics

\* A dead_exports rule ran after a refresh had invalidated the row of a
\* symbol that has an incoming edge.
C8_Witness ==
    /\ Evaluated
    /\ MetricRulesOn("dead_exports") # {}
    /\ \E j \in SymbolIds :
          /\ symbols[j].is_exported
          /\ j \notin DOMAIN graph_metrics
          /\ Pred(edges, j) # {}

\* The rule reads the index: every dependency rule, every naming rule with a
\* pattern, and the metric rules whose metric is computed.
QueriesStorage(rule) ==
    \/ Get(rule, "type", VStr("")) = VStr("dependency")
    \/ /\ Get(rule, "type", VStr("")) = VStr("naming")
       /\ Truthy(Get(rule, "pattern", VStr("")))
    \/ /\ Get(rule, "type", VStr("")) = VStr("metric")
       /\ MetricNameOf(rule) \in {"cycles", "health_score", "cognitive_complexity"}
                                 \cup CountedMetrics

\* C9: a storage error raised while a rule is evaluated leaves the checker
\* and ends the command; the rule is not reported.
C9_StorageErrorPropagates ==
    (last.cmd = "fitness" /\ \E i \in last.faults : QueriesStorage(last.rules[i])) =>
        /\ last.path = "raised"
        /\ last.raised = "StorageError"

\* The storage raised during a cycles rule.
C9_Witness ==
    /\ last.cmd = "fitness"
    /\ \E i \in last.faults :
          /\ Get(last.rules[i], "type", VStr("")) = VStr("metric")
          /\ MetricNameOf(last.rules[i]) = "cycles"

\* What the parser in use makes of a config file.
Parsed(file) ==
    IF yaml_available THEN yaml_rules(file[1]) ELSE _parse_simple_yaml(file[1])

NamesOf(rules) == {Get(rules[k], "name", VStr("")).s : k \in 1..Len(rules)}

\* C10: the rules of a fitness run are those of fitness.yaml when that file
\* exists, else those of fitness.yml, else none; when both exist nothing of
\* fitness.yml is loaded.
C10_LoadRulesPrefersYaml ==
    (last.cmd = "fitness" /\ last.path # "init") =>
        /\ last.loaded = (IF Exists(yaml_file) THEN Parsed(yaml_file)
                          ELSE IF Exists(yml_file) THEN Parsed(yml_file)
                          ELSE <<>>)
        /\ (Exists(yaml_file) /\ yaml_file[1] \in YamlConfigs)
              => "No edges at all" \notin NamesOf(last.loaded)
        /\ (~Exists(yaml_file) /\ Exists(yml_file))
              => NamesOf(last.loaded) = {"No edges at all"}

\* Both files exist and the run loaded the rules of fitness.yaml.
C10_Witness ==
    /\ last.cmd = "fitness" /\ last.path # "init"
    /\ Exists(yaml_file) /\ Exists(yml_file)
    /\ last.loaded # <<>>
    /\ last.loaded # Parsed(yml_file)

(***************************************************************************)
(* The fallback loader, read off the config file of a run without PyYAML.  *)
(***************************************************************************)

\* The last command was `fitness` without --init, it found a config file,
\* and PyYAML was missing.
FellBack ==
    /\ last.cmd = "fitness" /\ last.path # "init"
    /\ ~yaml_available
    /\ Exists(ConfigFile(yaml_file, yml_file))

\* The lines of the config file the run read.
ConfigLines == ConfigFile(yaml_file, yml_file)[1]

StartsRule(line) == StartsWith(Strip(line), "- name:")

BlankOrComment(line) == Strip(line) = "" \/ StartsWith(Strip(line), "#")

\* A `key: value` line.
KeyValue(line) == ~BlankOrComment(line) /\ ~StartsRule(line) /\ Contains(line, ":")

KeyOf(line) == Strip(SubSeq(Strip(line), 1, FindChar(Strip(line), ":") - 1))

TextOf(line) == Unquote(From(Strip(line), FindChar(Strip(line), ":") + 1))

\* The positions of the lines that start a rule, in file order.
RuleStarts(lines) == SelectSeq(Positions(lines), LAMBDA i : StartsRule(lines[i]))

\* The `key: value` lines between the k-th `- name:` line and the next one.
FollowingLines(lines, starts, k) ==
    {j \in (starts[k] + 1)..(IF k < Len(starts) THEN starts[k + 1] - 1 ELSE Len(lines)) :
        KeyValue(lines[j])}

\* The rule holds its name and every line of `following`, and nothing else.
HoldsLines(rule, lines, start, following) ==
    /\ DOMAIN rule = {"name"} \cup {KeyOf(lines[j]) : j \in following}
    /\ ("name" \notin {KeyOf(lines[j]) : j \in following})
           => rule["name"] = VStr(TextOf(lines[start]))
    /\ \A j \in following :
           (\A h \in following : h > j => KeyOf(lines[h]) # KeyOf(lines[j]))
               => rule[KeyOf(lines[j])] = ConvertSimple(TextOf(lines[j]))

\* C11: the fallback loader returns one rule per line that starts with
\* `- name:`, in file order; each rule holds its name and the `key: value`
\* lines that follow it up to the next `- name:` line, and nothing from
\* blank lines, comment lines or the lines before the first `- name:`.
C11_FallbackOneRulePerNameLine ==
    FellBack =>
        /\ Len(last.loaded) = Len(RuleStarts(ConfigLines))
        /\ \A k \in 1..Len(last.loaded) :
               HoldsLines(last.loaded[k], ConfigLines, RuleStarts(ConfigLines)[k],
                          FollowingLines(ConfigLines, RuleStarts(ConfigLines), k))

\* The fallback loader read the starter config: comment lines that hold a
\* colon inside rules, blank lines, and `rules:` before the first rule.
C11_Witness ==
    /\ FellBack
    /\ ConfigLines = StarterConfig
    /\ Len(last.loaded) = 4
    /\ \E j \in 1..Len(ConfigLines) :
           BlankOrComment(ConfigLines[j]) /\ Contains(ConfigLines[j], ":")
               /\ j > RuleStarts(ConfigLines)[1]

\* An entry of the rules list that does not open with `- name:`.
OtherEntry(line) ==
    ~BlankOrComment(line) /\ StartsWith(Strip(line), "- ") /\ ~StartsRule(line)

\* The config has rules beyond the flat `- name:` dialect.
ExceedsFlatSubset(lines) == \E j \in 1..Len(lines) : OtherEntry(lines[j])

\* The run ended by reporting a configuration error.
ReportsConfigError == last.path = "config_error" /\ last.exit # 0

\* C12: without PyYAML, a config whose rules exceed the flat subset makes
\* the load report a configuration error instead of returning rules.
C12_BeyondSubsetIsConfigError ==
    (FellBack /\ ExceedsFlatSubset(ConfigLines)) => ReportsConfigError

\* Without PyYAML the run loaded fewer rules than the file holds, reported
\* that there are none and succeeded.
C12_Witness ==
    /\ FellBack /\ ExceedsFlatSubset(ConfigLines)
    /\ Len(last.loaded) < Len(yaml_rules(ConfigLines))
    /\ last.path = "no_rules" /\ last.exit = 0

(***************************************************************************)
(* The envelope validator.                                                 *)
(***************************************************************************)

\* validate_envelope returned (it did not raise).
ValidatorReturned == validated.made /\ validated.result.raised = ""

\* X.Y.Z with numeric parts: two dots, and digits, at least one, around them.
IsSemVer(v) ==
    /\ v.t = "str"
    /\ \E i, j \in 1..Len(v.s) :
          /\ i < j
          /\ {k \in 1..Len(v.s) : CharAt(v.s, k) = "."} = {i, j}
          /\ 1 < i /\ i + 1 < j /\ j < Len(v.s)
          /\ \A k \in (1..Len(v.s)) \ {i, j} : CharAt(v.s, k) \in {"0", "1", "2", "3", "4",
                                                                  "5", "6", "7", "8", "9"}

\* `summary` is an object that contains a `verdict` string.
HasVerdict(data) ==
    /\ "summary" \in DOMAIN data
    /\ data["summary"].t = "dict"
    /\ "verdict" \in DOMAIN data["summary"].d
    /\ data["summary"].d["verdict"].t = "str"

\* C13: validate_envelope answers is_valid = true only for data that holds
\* the six required fields, a summary object with a verdict string and a
\* schema_version of the form X.Y.Z; and is_valid is true exactly when the
\* error list is empty.
C13_ValidOnlyForFullEnvelope ==
    ValidatorReturned =>
        /\ validated.result.is_valid =>
               /\ \A k \in 1..Len(RequiredFields) : RequiredFields[k] \in DOMAIN validated.data
               /\ HasVerdict(validated.data)
               /\ IsSemVer(validated.data["schema_version"])
        /\ validated.result.is_valid <=> (validated.result.errors = <<>>)

\* The validator accepted an envelope whose summary is an empty object.
C13_Witness ==
    /\ ValidatorReturned
    /\ validated.result.is_valid
    /\ "summary" \in DOMAIN validated.data
    /\ validated.data["summary"] = VDict(<<>>)

\* The envelope the last command printed, if it printed one.
Emitted == FitnessJson(last.envelope[1])

\* C14: the envelope a fitness run emits in JSON mode is accepted by the
\* envelope validator and its summary holds a verdict string.
C14_EmittedEnvelopeIsValid ==
    (last.cmd = "fitness" /\ last.envelope # <<>>) =>
        /\ validate_envelope(Emitted).raised = ""
        /\ validate_envelope(Emitted).is_valid
        /\ HasVerdict(Emitted)

\* A JSON run emitted an envelope that the validator accepts and whose
\* summary holds the four counts and no verdict.
C14_Witness ==
    /\ last.cmd = "fitness" /\ last.json_mode /\ last.envelope # <<>>
    /\ validate_envelope(Emitted).is_valid
    /\ DOMAIN Emitted["summary"].d = {"rules_checked", "passed", "failed", "total_violations"}

(***************************************************************************)
(* The commands at the command line.                                       *)
(***************************************************************************)

\* The last command was deps, or fitness without --init, and it ended on
\* one of its own paths (no exception left it).
Terminated ==
    \/ last.cmd = "deps" /\ last.path \in {"found", "not_found"}
    \/ last.cmd = "fitness" /\ last.path \in {"no_rules", "no_match", "evaluated"}

\* C15: with the global --json flag, every terminating path of fitness and
\* of deps writes the envelope and no human text.
C15_JsonFlagSwitchesEveryPath ==
    (Terminated /\ last.json_mode) => (last.envelope # <<>> /\ last.stdout = <<>>)

\* A fitness run under --json found no rules and printed the hint as text.
C15_Witness ==
    /\ last.cmd = "fitness" /\ last.path = "no_rules" /\ last.json_mode
    /\ last.envelope = <<>>
    /\ last.stdout # <<>>

\* C16: exit code 1 means a fitness violation: the command that exits 1 is
\* fitness and one of its rules has violations.
C16_ExitOneIsFitnessViolation ==
    last.exit = 1 =>
        /\ last.cmd = "fitness"
        /\ \E k \in 1..Len(last.rule_results) : last.rule_results[k].violations > 0

\* deps was asked about a path that is not in the index and exited 1.
C16_Witness ==
    /\ last.cmd = "deps" /\ last.path = "not_found"
    /\ last.target = "nope.x"
    /\ last.exit = 1

\* The positions of a step in a trace.
At(trace, step) == {k \in 1..Len(trace) : trace[k] = step}

\* The index is ensured before it is opened, and opened before it is queried.
EnsuredOpenedQueried(trace) ==
    /\ \A k \in At(trace, "open_db") : \E j \in At(trace, "db_exists") : j < k
    /\ \A k \in At(trace, "execute") : \E j \in At(trace, "open_db") : j < k

\* The indexer ran, and before the database was opened.
BuiltBeforeOpened(trace) ==
    /\ At(trace, "Indexer.run") # {}
    /\ \A k \in At(trace, "open_db") : \E j \in At(trace, "Indexer.run") : j < k

\* C20: a run of deps or of fitness (without --init) ensures the index
\* before reading it: it opens the database only after the check, and after
\* the indexer has run when there was no database, and it queries only the
\* open database.
C20_IndexEnsuredBeforeRead ==
    [][(last = Idle /\ last'.cmd \in {"deps", "fitness"} /\ last'.path # "init") =>
          /\ EnsuredOpenedQueried(last'.trace)
          /\ ~db_exists => BuiltBeforeOpened(last'.trace)
          /\ db_exists']_vars

\* deps ran without a database: it built the index, opened it and queried it.
C20_Witness ==
    /\ last.cmd = "deps" /\ last.path = "found"
    /\ At(last.trace, "Indexer.run") # {}
    /\ At(last.trace, "execute") # {}

(***************************************************************************)
(* Properties of the tool-call surface, read off the call in `mcp`.        *)
(***************************************************************************)

\* What json.loads gives for a text the subprocess printed (<<>>: it raises).
JsonOf(text) == (CHOOSE c \in StdoutCases : c.text = text).json

NonBlank(text) == \E i \in 1..Len(text) : CharAt(text, i) \notin Whitespace

\* The subprocess exited 0 and printed a JSON document.
RanClean(proc) ==
    /\ proc.kind = "exit"
    /\ proc.returncode = 0
    /\ NonBlank(proc.stdout)
    /\ JsonOf(proc.stdout) # <<>>

HasError(v) == v.t = "dict" /\ "error" \in DOMAIN v.d

\* C17: _run_roam never raises; it returns the parsed JSON of stdout exactly
\* when the subprocess exits 0 with non-blank stdout that parses as JSON,
\* and a dict with an `error` key in every other outcome (a non-zero exit
\* even when an envelope was printed, blank stdout, the timeout, output
\* that does not parse, a failure to launch).
C17_RunRoamParsesOrReportsError ==
    mcp.made =>
        \A k \in 1..Len(mcp.runs) :
            /\ mcp.runs[k].raised = ""
            /\ IF RanClean(mcp.proc)
               THEN mcp.runs[k].value = JsonOf(mcp.proc.stdout)[1]
               ELSE HasError(mcp.runs[k].value)

\* A command that printed an envelope and exited 1: the caller gets the
\* error dict, not the envelope.
C17_Witness ==
    /\ mcp.made
    /\ mcp.proc.kind = "exit" /\ mcp.proc.returncode = 1
    /\ JsonOf(mcp.proc.stdout) # <<>>
    /\ "summary" \in DOMAIN JsonOf(mcp.proc.stdout)[1].d
    /\ HasError(mcp.runs[1].value)
    /\ mcp.runs[1].value.d.exit_code = VInt(1)

\* The failures of a command: a non-zero exit, the timeout, an OS error,
\* output that does not parse.
CommandFailed(proc) ==
    \/ proc.kind \in {"timeout", "oserror"}
    \/ proc.kind = "exit" /\ proc.returncode # 0
    \/ proc.kind = "exit" /\ NonBlank(proc.stdout) /\ JsonOf(proc.stdout) = <<>>

\* An envelope that reports an error.
IsErrorEnvelope(v) ==
    /\ HasError(v) /\ Truthy(v.d.error)
    /\ "summary" \in DOMAIN v.d
    /\ v.d.summary.t = "dict"
    /\ "verdict" \in DOMAIN v.d.summary.d
    /\ v.d.summary.d.verdict = VStr("error")

\* C18: whenever a command invoked through the MCP boundary fails, the
\* value returned to the caller is an envelope whose summary.verdict is
\* "error" and whose `error` field is populated.
C18_FailureIsErrorEnvelope ==
    (mcp.made /\ CommandFailed(mcp.proc)) => IsErrorEnvelope(mcp.runs[1].value)

\* A command that timed out: the caller gets a dict with `error` alone.
C18_Witness ==
    /\ mcp.made
    /\ mcp.proc.kind = "timeout"
    /\ DOMAIN mcp.runs[1].value.d = {"error"}

\* The command of the same analysis as each tool.
CommandOf(tool) ==
    CASE tool = "search_symbol"     -> "search"
      [] tool = "file_info"         -> "file"
      [] tool = "pr_risk"           -> "pr-risk"
      [] tool = "breaking_changes"  -> "breaking"
      [] tool = "affected_tests"    -> "affected-tests"
      [] tool = "dead_code"         -> "dead"
      [] tool = "complexity_report" -> "complexity"
      [] tool = "repo_map"          -> "map"
      [] OTHER                      -> tool

\* The arguments after the command name.
Rest(cmd) == SubSeq(cmd, 4, Len(cmd))

\* Is `flag value` part of the arguments?
Passes(rest, flag, value) ==
    \E k \in 1..(Len(rest) - 1) : rest[k] = flag /\ rest[k + 1] = value

Takes(tool, param) == param \in Signature(tool)

\* One call of _run_roam: the command of the tool, with --json, in the root.
RunsItsCommand ==
    /\ Len(mcp.runs) = 1
    /\ SubSeq(mcp.runs[1].cmd, 1, 3) = <<"roam", "--json", CommandOf(mcp.tool)>>
    /\ mcp.runs[1].cwd = mcp.params.root

\* --staged iff staged, --task T iff a task is given, --budget N iff the
\* budget is positive, --threshold always.
FlagsAsSupplied(tool, p, rest) ==
    /\ (\E k \in 1..Len(rest) : rest[k] = "--staged") <=> (Takes(tool, "staged") /\ p.staged)
    /\ (\E k \in 1..Len(rest) : rest[k] = "--task") <=> (Takes(tool, "task") /\ p.task # "")
    /\ p.task # "" /\ Takes(tool, "task") => Passes(rest, "--task", p.task)
    /\ (\E k \in 1..Len(rest) : rest[k] = "--budget") <=> (Takes(tool, "budget") /\ p.budget > 0)
    /\ p.budget > 0 /\ Takes(tool, "budget") => Passes(rest, "--budget", Str(p.budget))
    /\ (\E k \in 1..Len(rest) : rest[k] = "--threshold") <=> Takes(tool, "threshold")
    /\ Takes(tool, "threshold") => Passes(rest, "--threshold", Str(p.threshold))

\* The tools whose target may be left out.
OptionalTarget == {"preflight", "affected_tests", "breaking_changes"}

TargetPassed(p, rest) == \E k \in 1..Len(rest) : rest[k] = p.target

\* C19 as stated: each MCP tool invokes exactly one CLI command, the one of
\* the same analysis, always with --json and in the given root; the
\* optional arguments are passed iff supplied (target iff non-empty,
\* --staged iff staged, --task T iff task is non-empty, --budget N iff
\* budget > 0), and complexity_report always passes --threshold.
C19_OptionalArgumentsIffSupplied ==
    mcp.made =>
        /\ RunsItsCommand
        /\ FlagsAsSupplied(mcp.tool, mcp.params, Rest(mcp.runs[1].cmd))
        /\ mcp.tool \in OptionalTarget =>
               (TargetPassed(mcp.params, Rest(mcp.runs[1].cmd)) <=> mcp.params.target # "")

\* C19, amended: as above, except that only preflight and affected_tests
\* pass the target iff it is non-empty; breaking_changes always passes its
\* target (HEAD~1 unless one is given, an empty one included).
C19_ToolsRunTheirCommand ==
    mcp.made =>
        /\ RunsItsCommand
        /\ FlagsAsSupplied(mcp.tool, mcp.params, Rest(mcp.runs[1].cmd))
        /\ mcp.tool \in OptionalTarget \ {"breaking_changes"} =>
               (TargetPassed(mcp.params, Rest(mcp.runs[1].cmd)) <=> mcp.params.target # "")
        /\ mcp.tool = "breaking_changes" => Rest(mcp.runs[1].cmd) = <<mcp.params.target>>

\* preflight of a file, staged, in a given root.
C19_Witness ==
    /\ mcp.made
    /\ mcp.tool = "preflight"
    /\ mcp.params.target = "src/a.py" /\ mcp.params.staged /\ mcp.params.root = "/repo"
    /\ mcp.runs[1].cmd = <<"roam", "--json", "preflight", "src/a.py", "--staged">>
    /\ mcp.runs[1].cwd = "/repo"

(***************************************************************************)
(* Frame properties of the commands.                                       *)
(***************************************************************************)

Steps(trace) == {trace[k] : k \in 1..Len(trace)}

\* C21: when an index already exists, evaluating fitness rules or running
\* deps leaves the index unchanged: the database is opened read-only, every
\* statement executed is a read, and files, symbols, edges, symbol_metrics
\* and graph_metrics have the same rows afterwards, whatever the rules and
\* whatever the outcome.
C21_CommandsLeaveIndexUnchanged ==
    [][(last = Idle /\ db_exists /\ last'.cmd \in {"deps", "fitness"} /\ last'.path # "init") =>
          /\ Steps(last'.trace) \subseteq {"db_exists", "_load_rules", "open_db", "execute"}
          /\ <<files, symbols, edges, symbol_metrics, graph_metrics>>'
                 = <<files, symbols, edges, symbol_metrics, graph_metrics>>]_vars

\* fitness found violations in an index that was there: it queried it.
C21_Witness ==
    /\ last.cmd = "fitness" /\ last.path = "evaluated" /\ last.exit = 1
    /\ "Indexer.run" \notin Steps(last.trace)
    /\ "execute" \in Steps(last.trace)
    /\ graph_metrics # <<>>

(***************************************************************************)
(* Properties of the catalog, read off the call in `lib`.                  *)
(***************************************************************************)

\* The entries of the catalog filed under an id.
Entries(task_id) == {k \in 1..Len(CATALOG) : CATALOG[k].id = task_id}

\* The ways go from best to worst, one of them has rank 1 and it comes
\* first, and no two share an id.
WellRanked(ways) ==
    /\ \A k \in 1..(Len(ways) - 1) : ways[k].rank <= ways[k + 1].rank
    /\ Cardinality({k \in 1..Len(ways) : ways[k].rank = 1}) = 1
    /\ ways[1].rank = 1
    /\ \A j, k \in 1..Len(ways) : ways[j].id = ways[k].id => j = k

\* What a lookup in the ways of a task has to return.
Answers(fn, ways, way_id, result) ==
    CASE fn = "best_way" -> result \in {ways[k] : k \in 1..Len(ways)} /\ result.rank = 1
      [] fn = "get_way"  ->
            IF \E k \in 1..Len(ways) : ways[k].id = way_id
            THEN result \in {ways[k] : k \in 1..Len(ways)} /\ result.id = way_id
            ELSE result = None
      [] OTHER -> TRUE

\* C23: for every task of the catalog the ways are listed from best to
\* worst (ascending rank, rank 1 first) with exactly one rank-1 way and way
\* ids unique within the task; best_way(task) returns that rank-1 way,
\* get_way(task, id) returns the way with that id, and both return None for
\* an unknown task.
C23_CatalogRankedAndLookedUp ==
    /\ \A k \in 1..Len(CATALOG) : WellRanked(CATALOG[k].ways)
    /\ (lib.made /\ lib.fn \in {"best_way", "get_way"}) =>
           IF Entries(lib.task_id) = {} THEN lib.result = None
           ELSE \A k \in Entries(lib.task_id) :
                    Answers(lib.fn, CATALOG[k].ways, lib.way_id, lib.result)

\* best_way of a task whose worse way has rank 5.
C23_Witness ==
    /\ lib.made /\ lib.fn = "best_way" /\ lib.task_id = "max-min"
    /\ lib.result # None
    /\ lib.result.id = "builtin-minmax"

(***************************************************************************)
(* Properties of search, read off the call in `lib`.                       *)
(***************************************************************************)

\* C22: search(conn, query, top_k=k) returns at most k results and the
\* results are in non-increasing order of score (each result's score is >=
\* the score of the result after it).
C22_SearchTopKDescending ==
    (lib.made /\ lib.fn = "search") =>
        /\ Len(lib.result) <= lib.top_k
        /\ \A k \in 1..(Len(lib.result) - 1) :
               ~ScoreLess(lib.result[k].score, lib.result[k + 1].score)

\* A search that matched more symbols than it was asked for, with
\* different scores among those it returned.
C22_Witness ==
    /\ lib.made /\ lib.fn = "search" /\ lib.top_k = 2
    /\ Len(symbols) >= 3
    /\ Len(lib.result) = 2
    /\ ScoreLess(lib.result[2].score, lib.result[1].score)
    /\ lib.result[2].score.num > 0

\* The envelope of an evaluated JSON run.
Envelope == last.envelope[1]

PerRule(k) == Envelope.rules[k].violations

\* The number of violations of the rules before the k-th evaluated one.
RECURSIVE Before(_)
Before(k) == IF k <= 1 THEN 0 ELSE Before(k - 1) + PerRule(k - 1)

\* The run's violations: those of the first evaluated rule, then those of the
\* second, and so on.
InRuleOrder ==
    \A k \in 1..Len(Envelope.rules) :
        \A j \in (Before(k) + 1)..(Before(k) + PerRule(k)) :
            /\ j <= Len(last.all_violations)
            /\ last.all_violations[j].rule = Envelope.rules[k].name

\* C24: after a fitness run that evaluates rules the reported counts agree:
\* rules_checked = passed + failed, failed counts the evaluated rules with at
\* least one violation, total_violations is the sum of the per-rule counts,
\* failed > 0 exactly when total_violations > 0, and the envelope lists the
\* first min(EnvelopeCap, total_violations) violations in rule order; the
\* text report ends with the same two counts.
C24_CountsAreConsistent ==
    /\ (Evaluated /\ last.json_mode) =>
           LET s == Envelope.summary
               n == Len(Envelope.rules)
               shown == IF s.total_violations < EnvelopeCap THEN s.total_violations ELSE EnvelopeCap
           IN  /\ s.rules_checked = n
               /\ s.rules_checked = s.passed + s.failed
               /\ s.failed = Cardinality({k \in 1..n : PerRule(k) > 0})
               /\ s.total_violations = Before(n + 1)
               /\ s.total_violations = Len(last.all_violations)
               /\ (s.failed > 0) <=> (s.total_violations > 0)
               /\ InRuleOrder
               /\ Envelope.violations = SubSeq(last.all_violations, 1, shown)
    /\ (Evaluated /\ ~last.json_mode) =>
           LET n == Len(last.rule_results)
               f == Cardinality({k \in 1..n : last.rule_results[k].violations > 0})
           IN  /\ last.stdout[1] = "Fitness check: " \o Str(n) \o " rules\n"
               /\ last.stdout[Len(last.stdout)]
                      = "\n" \o Str(n - f) \o " passed, " \o Str(f) \o " failed"

\* A JSON run with a passing rule between failing ones and more violations
\* than the envelope lists.
C24_Witness ==
    /\ Evaluated /\ last.json_mode
    /\ Envelope.summary.passed = 1 /\ Envelope.summary.failed = 3
    /\ Envelope.rules[2].status = "PASS"
    /\ Envelope.summary.total_violations > EnvelopeCap
    /\ Len(Envelope.violations) = EnvelopeCap

\* The positions of the run's rules that no checker takes: the type is
\* missing or is none of dependency, metric, naming.
Unchecked ==
    {i \in 1..Len(last.rules) :
        \/ "type" \notin DOMAIN last.rules[i]
        \/ last.rules[i]["type"] \notin {VStr("dependency"), VStr("metric"), VStr("naming")}}

\* The rules of the run that a checker takes, in config order.
CheckedRules == SelectSeq(Listed([i \in 1..Len(last.rules) |-> <<i, last.rules[i]>>]),
                          LAMBDA p : p[1] \notin Unchecked)

\* C25: a rule whose type is missing or is none of dependency, metric,
\* naming is neither evaluated nor counted: the result entries are those of
\* the other rules, in order, no violation carries its name, and a rule set
\* made only of such rules ends with exit 0, 0 rules checked and no violation.
C25_UnknownTypeIsSkipped ==
    Evaluated =>
        /\ Len(last.rule_results) = Len(CheckedRules)
        /\ \A k \in 1..Len(CheckedRules) :
               /\ last.rule_results[k].name = CheckedRules[k][2]["name"]
               /\ last.rule_results[k].type = CheckedRules[k][2]["type"].s
        /\ \A j \in 1..Len(last.all_violations) : \A i \in Unchecked :
               last.all_violations[j].rule # last.rules[i]["name"]
        /\ last.json_mode =>
               /\ last.envelope[1].summary.rules_checked = Len(CheckedRules)
               /\ last.envelope[1].summary.passed + last.envelope[1].summary.failed
                      = Len(CheckedRules)
        /\ (Unchecked = 1..Len(last.rules)) =>
               /\ last.exit = 0
               /\ last.rule_results = <<>> /\ last.all_violations = <<>>
               /\ last.json_mode =>
                      /\ last.envelope[1].summary.rules_checked = 0
                      /\ last.envelope[1].summary.passed = 0
                      /\ last.envelope[1].summary.failed = 0
                      /\ last.envelope[1].summary.total_violations = 0
                      /\ last.envelope[1].violations = <<>>
               /\ ~last.json_mode => last.stdout[1] = "Fitness check: 0 rules\n"

\* A run over an untyped rule, a failing naming rule and a rule of type layer.
C25_SkippedBesideEvaluated ==
    /\ Evaluated /\ last.json_mode
    /\ Len(last.rules) = 3 /\ Unchecked = {1, 3}
    /\ last.envelope[1].summary.rules_checked = 1
    /\ last.envelope[1].summary.failed = 1

\* A run whose two rules are both skipped, the first for want of a type.
C25_Witness ==
    /\ Evaluated
    /\ Len(last.rules) = 2 /\ Unchecked = {1, 2}
    /\ "type" \notin DOMAIN last.rules[1]
    /\ last.exit = 0

\* C26: `fitness --init` never changes the rules of a project that already
\* has a config: when fitness.yaml or fitness.yml existed before the call, no
\* existing file is overwritten, _load_rules returns afterwards what it
\* returned before, and a second --init changes nothing more.
C26_InitKeepsExistingRules ==
    [][(/\ last = Idle
        /\ last'.cmd = "fitness" /\ last'.path = "init"
        /\ (Exists(yaml_file) \/ Exists(yml_file)))
       => /\ Exists(yaml_file) => yaml_file' = yaml_file
          /\ Exists(yml_file) => yml_file' = yml_file
          /\ _load_rules(yaml_file', yml_file', yaml_available')
                 = _load_rules(yaml_file, yml_file, yaml_available)
          /\ _init_config(yaml_file') = yaml_file']_vars

\* --init has run in a project whose only config was fitness.yml: the starter
\* fitness.yaml now exists beside it and is the file _load_rules reads.
C26_Witness ==
    /\ last.cmd = "fitness" /\ last.path = "init"
    /\ last.stdout[1] = "Created .roam/fitness.yaml"
    /\ yml_file = <<YmlConfig>>
    /\ yaml_file = <<StarterConfig>>
    /\ ConfigFile(yaml_file, yml_file) = yaml_file
    /\ _load_rules(yaml_file, yml_file, yaml_available) # _load_rules(<<>>, yml_file, yaml_available)

\* The positions of the starter config's dependency rule in the run's rules.
StarterDependencyRules ==
    {i \in 1..Len(last.rules) :
        Get(last.rules[i], "name", VStr("")) = VStr("No test imports in production")}

\* C27: under the starter config written by --init, the dependency rule "No
\* test imports in production" reports one violation for each edge whose
\* source file matches src/** and whose target file matches tests/**, and
\* nothing else: an index without such edges passes the rule.
C27_StarterRuleGuardsTests ==
    (Evaluated /\ yaml_file = <<StarterConfig>>) =>
        \A i \in StarterDependencyRules :
            /\ OnePerRow(ViolationsOf(i), ForbiddenRows("src/**", "tests/**"))
            /\ (ForbiddenRows("src/**", "tests/**") = <<>>) =>
                   \A k \in 1..Len(last.rule_results) :
                       last.rule_results[k].name = last.rules[i]["name"]
                           => last.rule_results[k].status = "PASS"

\* A run under the starter config on an index with no file under src/ or
\* tests/: the rule fails on an edge from handlers/ to db/.
C27_Witness ==
    /\ Evaluated /\ yaml_file = <<StarterConfig>>
    /\ ForbiddenRows("src/**", "tests/**") = <<>>
    /\ \E i \in StarterDependencyRules :
           /\ "from" \notin DOMAIN last.rules[i] /\ "to" \notin DOMAIN last.rules[i]
           /\ last.rules[i]["source"] = VStr("src/**")
           /\ last.rules[i]["forbidden_target"] = VStr("tests/**")
           /\ \E k \in 1..Len(ViolationsOf(i)) :
                  /\ StartsWith(ViolationsOf(i)[k].source, "handlers/")
                  /\ ViolationsOf(i)[k].target = "db/d.x"
    /\ last.rule_results[1].status = "FAIL"
    /\ last.exit = 1

\* The messages of a returned error list.
ErrorsOf(result) == {result.errors[k] : k \in 1..Len(result.errors)}

\* C28: validate_envelope is total: for every dict, whatever the types of
\* its values, it returns (is_valid, errors) and does not raise; a summary
\* that is not a dict and a schema_version that is not a string are each
\* reported as an error in the list.
C28_ValidatorIsTotal ==
    validated.made =>
        /\ validated.result.raised = ""
        /\ validated.result.is_valid <=> (validated.result.errors = <<>>)
        /\ ("summary" \in DOMAIN validated.data /\ validated.data["summary"].t # "dict")
               => "'summary' must be a dict" \in ErrorsOf(validated.result)
        /\ ("schema_version" \in DOMAIN validated.data
                /\ validated.data["schema_version"].t # "str")
               => "'schema_version' must be semantic version (X.Y.Z)"
                      \in ErrorsOf(validated.result)

\* The validator was handed an envelope whose schema_version is the number 1
\* and raised instead of returning.
C28_Witness ==
    /\ validated.made
    /\ \A k \in 1..Len(RequiredFields) : RequiredFields[k] \in DOMAIN validated.data
    /\ validated.data["schema_version"] = VInt(1)
    /\ validated.result.raised = "AttributeError"

\* The files whose stored path equals the argument or ends with it.
Qualifying(arg) == {f \in files : f = arg \/ EndsWith(f, arg)}

\* The file deps reports: the first line of its output that is a stored path.
ReportedFile ==
    last.stdout[CHOOSE k \in 1..Len(last.stdout) :
                    /\ last.stdout[k] \in files
                    /\ \A j \in 1..(k - 1) : last.stdout[j] \notin files]

\* The queries of a run: the steps after the database is opened.
QueriesRun == Cardinality({k \in 1..Len(last.trace) : last.trace[k] = "execute"})

\* C29: deps looks the file up under its argument with backslashes replaced
\* by forward slashes; a reported file's stored path equals that argument or
\* ends with it character for character, a file whose path equals it is
\* chosen over one that ends with it, and when no file qualifies the command
\* reports 'not found' after the two lookups, without an import query.
C29_DepsMatchesPathOrSuffix ==
    last.cmd = "deps" =>
        /\ ~Contains(last.target, "\\")
        /\ last.path = "found" =>
               /\ ReportedFile \in Qualifying(last.target)
               /\ last.target \in files => ReportedFile = last.target
        /\ (Qualifying(last.target) = {}) =>
               /\ last.path = "not_found"
               /\ last.stdout[Len(last.stdout)] = "File not found in index: " \o last.target
               /\ QueriesRun = 2

\* deps was asked about h_x, which no stored path ends with, and reported
\* handlers/h.x.
C29_Witness ==
    /\ last.cmd = "deps" /\ last.path = "found"
    /\ last.target = "h_x"
    /\ Qualifying(last.target) = {}
    /\ ReportedFile = "handlers/h.x"
    /\ last.exit = 0

\* The lines of a config that are neither blank nor comments.
Content(lines) == SelectSeq(lines, LAMBDA l : ~BlankOrComment(l))

\* The flat subset: `rules:`, then rules that each start with `- name:` and
\* go on with indented scalar `key: value` lines.
FlatSubset(lines) ==
    /\ Content(lines) # <<>>
    /\ Content(lines)[1] = "rules:"
    /\ \A k \in 2..Len(Content(lines)) :
           \/ StartsRule(Content(lines)[k])
           \/ k > 2 /\ KeyValue(Content(lines)[k]) /\ StartsWith(Content(lines)[k], "    ")

\* A fitness run that read a config of the flat subset.
LoadedFlatConfig ==
    /\ last.cmd = "fitness" /\ last.path # "init"
    /\ Exists(ConfigFile(yaml_file, yml_file))
    /\ FlatSubset(ConfigLines)

\* C30: for a config file within the flat subset the fallback loader and the
\* YAML-library path of _load_rules return the same rule list: the same
\* rules in the same order with the same keys, values and value types, so
\* the rules a run loaded are those of either loader.
C30_LoadersAgreeOnFlatSubset ==
    LoadedFlatConfig =>
        /\ _parse_simple_yaml(ConfigLines) = yaml_rules(ConfigLines)
        /\ last.loaded = yaml_rules(ConfigLines)
        /\ last.loaded = _parse_simple_yaml(ConfigLines)

\* Without PyYAML the run read `allow: "false"` as the boolean False, where
\* the YAML library reads the string "false", and the rule failed on the
\* edge it forbids; with PyYAML the same rule allows every edge.
C30_Witness ==
    /\ LoadedFlatConfig /\ ~yaml_available
    /\ ConfigLines = QuotedAllowConfig
    /\ last.path = "evaluated"
    /\ last.loaded[1]["allow"] = VBool(FALSE)
    /\ yaml_rules(ConfigLines)[1]["allow"] = VStr("false")
    /\ last.exit = 1
    /\ _check_dependency_rule(yaml_rules(ConfigLines)[1], FALSE).violations = <<>>

=============================================================================
